---- MODULE Spec2Model ----
\* Model of the game-room lifecycle and the game-session / card-state engine of
\* backend/app/services/game_service.py (GameService) and its repositories.
EXTENDS Integers, Sequences, FiniteSets, TLC

\* ------------------------------------------------------------------ bounds
MaxUsers == 3
MaxSeats == 2
MaxPlayerRows == 4
MaxSessions == 2
MaxGameSessions == 1
MaxLifeRows == 3
MaxOps == 1
MaxPos == 1
MaxCoord == 1
MaxQty == 8
MaxShuffle == 3
MaxStarts == 2
MaxDrawOps == 2
MaxConc == 2
MaxRooms == 2
MaxCodes == 2
MaxCreates == 3
MaxEmits == 3
MaxTaps == 3
MaxFieldOps == 3
MaxMoveOps == 2

\* ------------------------------------------------------- program constants
OpeningHand == 7
StartLife == 40
MinPlayers == 2

WAITING == "waiting"
IN_PROGRESS == "in_progress"
COMPLETED == "completed"
PENDING == "pending"
ACCEPTED == "accepted"
REJECTED == "rejected"
LIBRARY == "library"
HAND == "hand"
BATTLEFIELD == "battlefield"
GRAVEYARD == "graveyard"
EXILE == "exile"
COMMANDER == "commander"
UNTAP == "untap"

CardZone == {LIBRARY, HAND, BATTLEFIELD, GRAVEYARD, EXILE, COMMANDER}

Users == 1..MaxUsers
NoRow == [id |-> 0]
Null == 0

VARIABLES
    useSqlite,      \* settings.USE_SQLITE: SQLite (no foreign keys enforced) or PostgreSQL
    rooms,          \* table game_rooms: room id -> row
    players,        \* table game_room_players: set of rows
    decks,          \* tables decks / deck_cards: deck id -> [owner_id, cards]
    scryfall,       \* the card-database collaborator: scryfall id -> outcome of a lookup
    gameStates,     \* table game_states
    playerStates,   \* table player_game_states
    cards,          \* table game_cards
    seq,            \* primary-key sequences of the tables (PostgreSQL) and a count of sessions
    tasks,          \* start_game coroutines suspended at an await
    nops,           \* number of zone operations served (bounds the exploration)
    response        \* the response of the last request served

vars == <<useSqlite, rooms, players, decks, scryfall, gameStates, playerStates,
          cards, seq, tasks, nops, response>>

lobbyVars == <<rooms, players>>
sessionVars == <<gameStates, playerStates, cards, seq>>
configVars == <<useSqlite, decks, scryfall>>

\* ------------------------------------------------------------ small helpers
Max(S) == CHOOSE x \in S : \A y \in S : y <= x
MinOf(a, b) == IF a <= b THEN a ELSE b

Ids(S) == {r.id : r \in S}

RECURSIVE SortById(_)
SortById(S) ==
    IF S = {} THEN <<>>
    ELSE LET m == CHOOSE r \in S : \A o \in S : r.id <= o.id
         IN <<m>> \o SortById(S \ {m})

\* All the sequences that list the rows of S once each.
RECURSIVE Orderings(_)
Orderings(S) ==
    IF S = {} THEN {<<>>}
    ELSE UNION {{<<r>> \o t : t \in Orderings(S \ {r})} : r \in S}

\* The rows a query without ORDER BY returns: SQLite scans in rowid order, the
\* order PostgreSQL returns is not specified.
RowOrders(S) == IF useSqlite THEN {SortById(S)} ELSE Orderings(S)

\* Query(...).first() without ORDER BY.
FirstChoices(S) ==
    IF S = {} THEN {NoRow}
    ELSE IF useSqlite THEN {CHOOSE r \in S : \A o \in S : r.id <= o.id}
    ELSE S

\* A new primary key: SQLite's INTEGER PRIMARY KEY is max(rowid)+1, PostgreSQL
\* draws from the table's sequence.
NewId(table, counter) == IF useSqlite THEN Max(Ids(table) \cup {0}) + 1 ELSE counter + 1

Resp(op, code, detail) == [op |-> op, code |-> code, detail |-> detail]

\* ---------------------------------------------------------------- queries
\* BaseRepository.get_by_id on game_rooms, with _get_game_or_404
GameExists(g) == g \in DOMAIN rooms

_is_host(g, u) == rooms[g].host_id = u

get_player(g, u) == {p \in players : p.game_room_id = g /\ p.user_id = u}

get_player_by_id(pid, g) == {p \in players : p.id = pid /\ p.game_room_id = g}

get_accepted_players(g) == {p \in players : p.game_room_id = g /\ p.status = ACCEPTED}

count_accepted(g) == Cardinality(get_accepted_players(g))

get_by_game_room_id(g) == {gs \in gameStates : gs.game_room_id = g}

get_by_game_state_and_user(gsid, u) ==
    {ps \in playerStates : ps.game_state_id = gsid /\ ps.user_id = u}

get_by_game_state(gsid) == {ps \in playerStates : ps.game_state_id = gsid}

get_player_cards_in_zone(cs, psid, zone) ==
    {c \in cs : c.player_game_state_id = psid /\ c.zone = zone}

get_card_by_id(cid) == {c \in cards : c.id = cid}

\* .order_by(GameCard.position), ties broken by id
RECURSIVE SortByPosition(_)
SortByPosition(S) ==
    IF S = {} THEN <<>>
    ELSE LET m == CHOOSE r \in S : \A o \in S :
                    r.position < o.position \/ (r.position = o.position /\ r.id <= o.id)
         IN <<m>> \o SortByPosition(S \ {m})

\* DeckRepository.get_by_id / get_deck_cards
get_deck_cards(d) == IF d \in DOMAIN decks THEN decks[d].cards ELSE <<>>

\* ------------------------------------------------------- room lifecycle
\* join_game without the check of the room status
JoinResultAnyStatus(g, u, existing) ==
    IF ~GameExists(g) THEN Resp("join", 404, "Game room not found")
    ELSE IF existing # NoRow /\ existing.status = ACCEPTED
        THEN Resp("join", 400, "You are already in this game")
    ELSE IF existing # NoRow /\ existing.status = PENDING
        THEN Resp("join", 400, "Your join request is pending")
    ELSE IF count_accepted(g) >= rooms[g].max_players
        THEN Resp("join", 400, "Game is full")
    ELSE Resp("join", 200, "Join request sent to host")

\* GameService.join_game
JoinResult(g, u, existing) ==
    IF ~GameExists(g) THEN Resp("join", 404, "Game room not found")
    ELSE IF existing # NoRow /\ existing.status = ACCEPTED
        THEN Resp("join", 400, "You are already in this game")
    ELSE IF existing # NoRow /\ existing.status = PENDING
        THEN Resp("join", 400, "Your join request is pending")
    ELSE IF count_accepted(g) >= rooms[g].max_players
        THEN Resp("join", 400, "Game is full")
    ELSE IF rooms[g].status # WAITING
        THEN Resp("join", 400, "Game has already started")
    ELSE Resp("join", 200, "Join request sent to host")

JoinGame(g, u) ==
    \E existing \in FirstChoices(get_player(g, u)) :
        LET r == JoinResult(g, u, existing) IN
        /\ response' = r
        /\ IF r.code = 200
             THEN /\ players' = players \cup
                        {[id |-> NewId(players, seq.players), game_room_id |-> g,
                          user_id |-> u, status |-> PENDING, is_host |-> FALSE,
                          deck_id |-> Null]}
                  /\ seq' = [seq EXCEPT !.players = IF useSqlite THEN @ ELSE @ + 1]
             ELSE UNCHANGED <<players, seq>>
        /\ UNCHANGED <<configVars, rooms, gameStates, playerStates, cards, tasks, nops>>

\* accept_player without the capacity re-check
AcceptCapacityUnchecked(g) == TRUE

\* GameService.accept_player with the capacity re-check
AcceptCapacityOk(g) == count_accepted(g) < rooms[g].max_players

AcceptResult(g, pid, u) ==
    IF ~GameExists(g) THEN Resp("accept", 404, "Game room not found")
    ELSE IF ~_is_host(g, u) THEN Resp("accept", 403, "Only the host can accept players")
    ELSE IF get_player_by_id(pid, g) = {} THEN Resp("accept", 404, "Player not found in this game")
    ELSE IF (CHOOSE p \in get_player_by_id(pid, g) : TRUE).status # PENDING
        THEN Resp("accept", 400, "Player is not pending")
    ELSE IF ~AcceptCapacityOk(g) THEN Resp("accept", 400, "Game is full")
    ELSE Resp("accept", 200, "ok")

\* GameRoomPlayerRepository.update_status
update_status(pid, st) ==
    {IF p.id = pid THEN [p EXCEPT !.status = st] ELSE p : p \in players}

AcceptPlayer(g, pid, u) ==
    LET r == AcceptResult(g, pid, u) IN
    /\ response' = r
    /\ players' = IF r.code = 200 THEN update_status(pid, ACCEPTED) ELSE players
    /\ UNCHANGED <<configVars, rooms, sessionVars, tasks, nops>>

\* reject_player without the check that the player is PENDING
RejectResultAnyStatus(g, pid, u) ==
    IF ~GameExists(g) THEN Resp("reject", 404, "Game room not found")
    ELSE IF ~_is_host(g, u) THEN Resp("reject", 403, "Only the host can reject players")
    ELSE IF get_player_by_id(pid, g) = {} THEN Resp("reject", 404, "Player not found in this game")
    ELSE Resp("reject", 200, "ok")

\* GameService.reject_player
RejectResult(g, pid, u) ==
    IF ~GameExists(g) THEN Resp("reject", 404, "Game room not found")
    ELSE IF ~_is_host(g, u) THEN Resp("reject", 403, "Only the host can reject players")
    ELSE IF get_player_by_id(pid, g) = {} THEN Resp("reject", 404, "Player not found in this game")
    ELSE IF (CHOOSE p \in get_player_by_id(pid, g) : TRUE).status # PENDING
        THEN Resp("reject", 400, "Player is not pending")
    ELSE Resp("reject", 200, "ok")

RejectPlayer(g, pid, u) ==
    LET r == RejectResult(g, pid, u) IN
    /\ response' = r
    /\ players' = IF r.code = 200 THEN update_status(pid, REJECTED) ELSE players
    /\ UNCHANGED <<configVars, rooms, sessionVars, tasks, nops>>

\* GameService.leave_game
LeaveResult(g, u, player) ==
    IF ~GameExists(g) THEN Resp("leave", 404, "Game room not found")
    ELSE IF player = NoRow THEN Resp("leave", 404, "You are not in this game")
    ELSE IF player.is_host THEN Resp("leave", 400, "Host cannot leave. Delete the game instead.")
    ELSE Resp("leave", 204, "ok")

LeaveGame(g, u) ==
    \E player \in FirstChoices(get_player(g, u)) :
        LET r == LeaveResult(g, u, player) IN
        /\ response' = r
        /\ players' = IF r.code = 204 THEN players \ {player} ELSE players
        /\ UNCHANGED <<configVars, rooms, sessionVars, tasks, nops>>

\* select_deck without the check of the deck's owner
SelectDeckResultAnyOwner(g, u, d, player) ==
    IF ~GameExists(g) THEN Resp("select_deck", 404, "Game room not found")
    ELSE IF player = NoRow THEN Resp("select_deck", 404, "You are not in this game")
    ELSE IF player.status # ACCEPTED
        THEN Resp("select_deck", 400, "Your join request must be accepted first")
    ELSE IF d \notin DOMAIN decks
        THEN Resp("select_deck", 404, "Deck not found or does not belong to you")
    ELSE Resp("select_deck", 200, "ok")

\* GameService.select_deck
SelectDeckResult(g, u, d, player) ==
    IF ~GameExists(g) THEN Resp("select_deck", 404, "Game room not found")
    ELSE IF player = NoRow THEN Resp("select_deck", 404, "You are not in this game")
    ELSE IF player.status # ACCEPTED
        THEN Resp("select_deck", 400, "Your join request must be accepted first")
    ELSE IF d \notin DOMAIN decks \/ decks[d].owner_id # u
        THEN Resp("select_deck", 404, "Deck not found or does not belong to you")
    ELSE Resp("select_deck", 200, "ok")

\* GameRoomPlayerRepository.set_deck
set_deck(pid, d) ==
    {IF p.id = pid THEN [p EXCEPT !.deck_id = d] ELSE p : p \in players}

SelectDeck(g, u, d) ==
    \E player \in FirstChoices(get_player(g, u)) :
        LET r == SelectDeckResult(g, u, d, player) IN
        /\ response' = r
        /\ players' = IF r.code = 200 THEN set_deck(player.id, d) ELSE players
        /\ UNCHANGED <<configVars, rooms, sessionVars, tasks, nops>>

\* ------------------------------------------------------ session initializer
\* The session tables as one value, so that the steps of start_game compose.
Tables == [gameStates |-> gameStates, playerStates |-> playerStates,
           cards |-> cards, seq |-> seq]

\* start_game: query(GameState).filter(id == existing.id).delete().  The bulk
\* delete runs no ORM cascade; PostgreSQL applies ON DELETE CASCADE of the
\* foreign keys, SQLite (foreign keys not enabled) removes the one row only.
DeleteGameStateRow(S, gsid) ==
    IF useSqlite
    THEN [S EXCEPT !.gameStates = {x \in @ : x.id # gsid}]
    ELSE LET gone == {ps.id : ps \in {x \in S.playerStates : x.game_state_id = gsid}}
         IN [S EXCEPT !.gameStates = {x \in @ : x.id # gsid},
                      !.playerStates = {x \in @ : x.game_state_id # gsid},
                      !.cards = {x \in @ : x.game_state_id # gsid
                                           /\ x.player_game_state_id \notin gone}]

\* start_game: game_state_repo.create({...})
InsertGameState(S, g, startingUser) ==
    [S EXCEPT !.gameStates = @ \cup
                {[id |-> NewId(S.gameStates, S.seq.gs), game_room_id |-> g,
                  current_turn |-> 1, active_player_id |-> startingUser,
                  current_phase |-> UNTAP, starting_player_id |-> startingUser,
                  gen |-> S.seq.gen + 1]},
              !.seq = [@ EXCEPT !.gs = IF useSqlite THEN @ ELSE @ + 1,
                                !.gen = @ + 1]]

\* The player_order start_game stores for the i-th accepted player (0-based):
\* the enumerate index, the shuffled list player_order is never read.
PlayerOrderOf(i, shuffled) == i

\* start_game: player_game_state_repo.create({...})
InsertPlayerState(S, gsid, gen, g, user, i, shuffled, startingUser) ==
    [S EXCEPT !.playerStates = @ \cup
                {[id |-> NewId(S.playerStates, S.seq.ps), game_state_id |-> gsid,
                  user_id |-> user, player_order |-> PlayerOrderOf(i, shuffled),
                  is_active |-> (user = startingUser), life_total |-> StartLife,
                  poison_counters |-> 0, gen |-> gen, room |-> g]},
              !.seq = [@ EXCEPT !.ps = IF useSqlite THEN @ ELSE @ + 1]]

\* A quantity loop that runs once per deck entry
OneInstance(dc) == 1

\* The number of instances a deck entry yields.
InstancesOf(dc) == dc.quantity

\* start_game lines 368-404: one element per instance to create, in deck order;
\* an entry whose lookup returns nothing or raises is skipped.
RECURSIVE ExpandDeck(_)
ExpandDeck(dcs) ==
    IF dcs = <<>> THEN <<>>
    ELSE LET dc == Head(dcs)
         IN (IF scryfall[dc.card_scryfall_id] = "data"
               THEN [k \in 1..InstancesOf(dc) |-> dc] ELSE <<>>) \o ExpandDeck(Tail(dcs))

\* GameCardRepository.create_cards(cards_data)
create_cards(S, gsid, psid, gen, g, dcs) ==
    LET ex == ExpandDeck(dcs)
        base == IF useSqlite THEN Max(Ids(S.cards) \cup {0}) ELSE S.seq.cards
    IN [S EXCEPT !.cards = @ \cup
            {[id |-> base + k, game_state_id |-> gsid, player_game_state_id |-> psid,
              deck_card_id |-> ex[k].id, card_scryfall_id |-> ex[k].card_scryfall_id,
              zone |-> LIBRARY, position |-> k - 1, is_tapped |-> FALSE,
              is_face_up |-> TRUE, battlefield_x |-> Null, battlefield_y |-> Null,
              is_attacking |-> FALSE, is_blocking |-> FALSE, damage_received |-> 0,
              gen |-> gen, room |-> g] : k \in 1..Len(ex)},
                !.seq = [@ EXCEPT !.cards = IF useSqlite THEN @ ELSE @ + Len(ex)]]

\* The cards start_game shuffles for a player: the player's LIBRARY after create_cards.
LibraryToShuffle(S, psid) == SortByPosition(get_player_cards_in_zone(S.cards, psid, LIBRARY))

\* start_game lines 411-416: card i of the library gets positions[i];
\* perm = <<>> stands for the identity.
ShufflePositions(cs, lib, perm) ==
    IF perm = <<>> THEN cs
    ELSE {IF \E i \in 1..Len(lib) : lib[i].id = c.id
            THEN [c EXCEPT !.position = perm[(CHOOSE i \in 1..Len(lib) : lib[i].id = c.id) - 1]]
            ELSE c : c \in cs}

\* A start that sets no commander aside
SetAsideNone(cs, psid, dcs) == cs

\* start_game lines 418-428: the player's cards made from commander entries
SetAsideCommanders(cs, psid, dcs) ==
    LET commander_card_ids == {dcs[i].id : i \in {j \in 1..Len(dcs) : dcs[j].is_commander}}
    IN {IF c.player_game_state_id = psid /\ c.deck_card_id \in commander_card_ids
          THEN [c EXCEPT !.zone = COMMANDER, !.position = 0] ELSE c : c \in cs}

\* The position draw_cards gives the i-th drawn card (0-based) of a player
\* whose HAND holds handSize cards.
DrawnPosition(i, handSize) == i

\* A draw that takes the whole library whatever the count
draw_all_cards(cs, psid, count, library) ==
    {IF \E i \in 1..Len(library) : library[i].id = c.id
       THEN [c EXCEPT !.zone = HAND,
                      !.position = (CHOOSE i \in 1..Len(library) : library[i].id = c.id) - 1]
       ELSE c : c \in cs}

\* GameCardRepository.draw_cards: library is the player's LIBRARY in position order
draw_cards(cs, psid, count, library) ==
    LET n == MinOf(count, Len(library))
        handSize == Cardinality(get_player_cards_in_zone(cs, psid, HAND))
    IN {IF \E i \in 1..n : library[i].id = c.id
          THEN [c EXCEPT !.zone = HAND,
                         !.position = DrawnPosition((CHOOSE i \in 1..n : library[i].id = c.id) - 1,
                                                    handSize)]
          ELSE c : c \in cs}

\* start_game lines 356-433 for one player state: create the cards, shuffle,
\* set the commanders aside, draw the opening hand.
DealCards(S, gsid, psid, gen, g, deck_id, perm) ==
    LET dcs == get_deck_cards(deck_id)
        S1 == IF ExpandDeck(dcs) # <<>> THEN create_cards(S, gsid, psid, gen, g, dcs) ELSE S
        lib == LibraryToShuffle(S1, psid)
    IN IF dcs = <<>> \/ lib = <<>> THEN S1
       ELSE LET c1 == ShufflePositions(S1.cards, lib, perm)
                c2 == SetAsideCommanders(c1, psid, dcs)
                c3 == draw_cards(c2, psid, OpeningHand,
                                 SortByPosition(get_player_cards_in_zone(c2, psid, LIBRARY)))
            IN [S1 EXCEPT !.cards = c3]

\* The loop of start_game over accepted_players from index i on; shuffles[i]
\* is the outcome of random.shuffle for the i-th player.  sizes collects the
\* length of each shuffled list.
RECURSIVE DealPlayers(_, _, _, _, _, _, _, _)
DealPlayers(S, gsid, gen, g, accepted, startingUser, shuffles, i) ==
    IF i > Len(accepted) THEN [st |-> S, sizes |-> <<>>]
    ELSE LET p == accepted[i]
             psid == NewId(S.playerStates, S.seq.ps)
             S1 == InsertPlayerState(S, gsid, gen, g, p.user_id, i - 1, <<>>, startingUser)
             S1c == IF ExpandDeck(get_deck_cards(p.deck_id)) # <<>>
                      THEN create_cards(S1, gsid, psid, gen, g, get_deck_cards(p.deck_id))
                      ELSE S1
             n == IF get_deck_cards(p.deck_id) = <<>> THEN 0
                  ELSE Len(LibraryToShuffle(S1c, psid))
             perm == IF i <= Len(shuffles) THEN shuffles[i] ELSE <<>>
             S2 == DealCards(S1, gsid, psid, gen, g, p.deck_id, perm)
             rest == DealPlayers(S2, gsid, gen, g, accepted, startingUser, shuffles, i + 1)
         IN [st |-> rest.st, sizes |-> <<n>> \o rest.sizes]

\* start_game lines 328-433 as one run: drop the existing session, create the
\* new one and deal every player.
StartBody(S, g, accepted, startingUser, shuffles) ==
    LET existing == {gs \in S.gameStates : gs.game_room_id = g}
        S0 == IF existing = {} THEN S
              ELSE DeleteGameStateRow(S, (CHOOSE gs \in existing : TRUE).id)
        gsid == NewId(S0.gameStates, S0.seq.gs)
        S1 == InsertGameState(S0, g, startingUser)
    IN DealPlayers(S1, gsid, S1.seq.gen, g, accepted, startingUser, shuffles, 1)

\* The outcomes of random.shuffle(positions) explored for a list of n cards:
\* every permutation of 0..n-1 up to MaxShuffle cards, and for longer lists the
\* rotations of the identity and the reversal.
Shuffles(n) ==
    IF n <= MaxShuffle THEN Permutations(0..(n - 1))
    ELSE {[i \in 0..(n - 1) |-> (i + k) % n] : k \in 0..(n - 1)}
            \cup {[i \in 0..(n - 1) |-> n - 1 - i]}

\* The outcomes of random.shuffle for lists of the given lengths.
RECURSIVE ShuffleSeqs(_)
ShuffleSeqs(sizes) ==
    IF sizes = <<>> THEN {<<>>}
    ELSE {<<p>> \o rest : p \in Shuffles(Head(sizes)), rest \in ShuffleSeqs(Tail(sizes))}

\* start_game without the check that every accepted player has a deck
StartResultAnyDeck(g, u) ==
    IF ~GameExists(g) THEN Resp("start", 404, "Game room not found")
    ELSE IF ~_is_host(g, u) THEN Resp("start", 403, "Only the host can start the game")
    ELSE IF Cardinality(get_accepted_players(g)) < MinPlayers
        THEN Resp("start", 400, "Need at least 2 players to start")
    ELSE Resp("start", 200, "ok")

\* GameService.start_game, the precondition checks (lines 305-326)
StartResult(g, u) ==
    IF ~GameExists(g) THEN Resp("start", 404, "Game room not found")
    ELSE IF ~_is_host(g, u) THEN Resp("start", 403, "Only the host can start the game")
    ELSE IF Cardinality(get_accepted_players(g)) < MinPlayers
        THEN Resp("start", 400, "Need at least 2 players to start")
    ELSE IF \E p \in get_accepted_players(g) : p.deck_id = Null
        THEN Resp("start", 400, "All players must select their decks before starting")
    ELSE Resp("start", 200, "ok")

\* GameRoomRepository.update_status
SetRoomStatus(g, st) == IF g \in DOMAIN rooms THEN [rooms EXCEPT ![g].status = st] ELSE rooms

\* GameService.start_game run without another request between its awaits
StartGame(g, u) ==
    LET r == StartResult(g, u) IN
    IF r.code # 200
    THEN /\ response' = r
         /\ UNCHANGED <<configVars, lobbyVars, sessionVars, tasks, nops>>
    ELSE /\ \E accepted \in RowOrders(get_accepted_players(g)) :
            \E starting \in get_accepted_players(g) :
            \E shuffles \in ShuffleSeqs(StartBody(Tables, g, accepted, starting.user_id, <<>>).sizes) :
                LET S == StartBody(Tables, g, accepted, starting.user_id, shuffles).st IN
                /\ gameStates' = S.gameStates
                /\ playerStates' = S.playerStates
                /\ cards' = S.cards
                /\ seq' = S.seq
         /\ rooms' = SetRoomStatus(g, IN_PROGRESS)
         /\ response' = r
         /\ UNCHANGED <<configVars, players, tasks, nops>>

\* GameService.stop_game
StopResult(g, u) ==
    IF ~GameExists(g) THEN Resp("stop", 404, "Game room not found")
    ELSE IF ~_is_host(g, u) THEN Resp("stop", 403, "Only the host can stop the game")
    ELSE IF rooms[g].status # IN_PROGRESS THEN Resp("stop", 400, "Game is not in progress")
    ELSE Resp("stop", 200, "ok")

\* stop_game lines 455-460: explicit deletes of the session's rows
DeleteSession(S, gsid) ==
    [S EXCEPT !.cards = {x \in @ : x.game_state_id # gsid},
              !.playerStates = {x \in @ : x.game_state_id # gsid},
              !.gameStates = {x \in @ : x.id # gsid}]

StopGame(g, u) ==
    LET r == StopResult(g, u)
        S == IF r.code = 200 /\ get_by_game_room_id(g) # {}
               THEN DeleteSession(Tables, (CHOOSE gs \in get_by_game_room_id(g) : TRUE).id)
               ELSE Tables
    IN /\ response' = r
       /\ gameStates' = S.gameStates
       /\ playerStates' = S.playerStates
       /\ cards' = S.cards
       /\ rooms' = IF r.code = 200 THEN SetRoomStatus(g, WAITING) ELSE rooms
       /\ UNCHANGED <<configVars, players, seq, tasks, nops>>

\* ------------------------------------------------------ visibility projector
\* GameService._card_to_dict
_card_to_dict(c, reveal) ==
    [id |-> c.id, card_scryfall_id |-> c.card_scryfall_id,
     card_name |-> IF reveal THEN c.card_scryfall_id ELSE "Unknown",
     zone |-> c.zone, position |-> c.position, is_tapped |-> c.is_tapped,
     is_face_up |-> IF reveal THEN c.is_face_up ELSE FALSE]

\* GameService._card_to_battlefield_dict
_card_to_battlefield_dict(c) ==
    [id |-> c.id, card_scryfall_id |-> c.card_scryfall_id, card_name |-> c.card_scryfall_id,
     is_tapped |-> c.is_tapped, is_face_up |-> c.is_face_up,
     battlefield_x |-> c.battlefield_x, battlefield_y |-> c.battlefield_y]

\* get_game_state listing the hidden zones to every viewer
ShowsHiddenToAll(ps, viewer) == TRUE

\* Whether get_game_state lists the LIBRARY and HAND of a player state to a viewer.
ShowsHidden(ps, viewer) == ps.user_id = viewer

ZoneList(psid, zone) == SortByPosition(get_player_cards_in_zone(cards, psid, zone))

\* get_game_state lines 496-522: the PlayerGameStateResponse built for one player state
PlayerView(ps, viewer) ==
    LET hidden(zone) == IF ShowsHidden(ps, viewer)
                          THEN [i \in 1..Len(ZoneList(ps.id, zone)) |->
                                    _card_to_dict(ZoneList(ps.id, zone)[i], TRUE)]
                          ELSE <<>>
        shown(zone) == [i \in 1..Len(ZoneList(ps.id, zone)) |->
                            _card_to_dict(ZoneList(ps.id, zone)[i], TRUE)]
    IN [id |-> ps.id, user_id |-> ps.user_id, player_order |-> ps.player_order,
        is_active |-> ps.is_active, life_total |-> ps.life_total,
        poison_counters |-> ps.poison_counters,
        library |-> hidden(LIBRARY), hand |-> hidden(HAND),
        battlefield |-> [i \in 1..Len(ZoneList(ps.id, BATTLEFIELD)) |->
                            _card_to_battlefield_dict(ZoneList(ps.id, BATTLEFIELD)[i])],
        graveyard |-> shown(GRAVEYARD), exile |-> shown(EXILE),
        commander |-> shown(COMMANDER)]

\* get_game_state lines 491-534: the players of the GameStateResponse
Projection(g, viewer) ==
    LET gs == CHOOSE x \in get_by_game_room_id(g) : TRUE
    IN {PlayerView(ps, viewer) : ps \in get_by_game_state(gs.id)}

\* GameService.get_game_state, the checks before the projection (lines 470-489)
GetGameStateResult(op, g, u, player) ==
    IF ~GameExists(g) THEN Resp(op, 404, "Game room not found")
    ELSE IF player = NoRow \/ player.status # ACCEPTED
        THEN Resp(op, 403, "You are not in this game")
    ELSE IF get_by_game_room_id(g) = {} THEN Resp(op, 404, "Game state not found")
    ELSE Resp(op, 200, "ok")

GetGameState(g, u) ==
    \E player \in FirstChoices(get_player(g, u)) :
        /\ response' = GetGameStateResult("get_game_state", g, u, player)
        /\ UNCHANGED <<configVars, lobbyVars, sessionVars, tasks, nops>>

\* ------------------------------------------------------ zone operations
\* The player state a zone operation resolves for the caller.
PlayerStateChoices(g, u) ==
    IF GameExists(g) /\ get_by_game_room_id(g) # {}
    THEN FirstChoices(get_by_game_state_and_user(
            (CHOOSE x \in get_by_game_room_id(g) : TRUE).id, u))
    ELSE {NoRow}

\* A guard sequence that lets only the active player act
SessionGuardOfActive(op, g, ps) ==
    IF ~GameExists(g) THEN Resp(op, 404, "Game room not found")
    ELSE IF rooms[g].status # IN_PROGRESS THEN Resp(op, 400, "Game is not in progress")
    ELSE IF get_by_game_room_id(g) = {} THEN Resp(op, 404, "Game state not found")
    ELSE IF ps = NoRow THEN Resp(op, 403, "You are not in this game")
    ELSE IF ~ps.is_active THEN Resp(op, 403, "It is not your turn")
    ELSE Resp(op, 200, "ok")

\* The guard sequence every zone operation starts with
SessionGuard(op, g, ps) ==
    IF ~GameExists(g) THEN Resp(op, 404, "Game room not found")
    ELSE IF rooms[g].status # IN_PROGRESS THEN Resp(op, 400, "Game is not in progress")
    ELSE IF get_by_game_room_id(g) = {} THEN Resp(op, 404, "Game state not found")
    ELSE IF ps = NoRow THEN Resp(op, 403, "You are not in this game")
    ELSE Resp(op, 200, "ok")

\* An ownership check that lets every participant through
OwnsCardAny(card, ps) == TRUE

\* Whether the card belongs to the caller's player state
OwnsCard(card, ps) == card.player_game_state_id = ps.id

\* A guard sequence that looks the card up before it looks for the caller's player state
CardGuardCardFirst(op, g, ps, cid) ==
    IF ~GameExists(g) THEN Resp(op, 404, "Game room not found")
    ELSE IF rooms[g].status # IN_PROGRESS THEN Resp(op, 400, "Game is not in progress")
    ELSE IF get_by_game_room_id(g) = {} THEN Resp(op, 404, "Game state not found")
    ELSE IF get_card_by_id(cid) = {} THEN Resp(op, 404, "Card not found")
    ELSE IF ps = NoRow THEN Resp(op, 403, "You are not in this game")
    ELSE IF ~OwnsCard(CHOOSE c \in get_card_by_id(cid) : TRUE, ps)
        THEN Resp(op, 403, "This card is not yours")
    ELSE Resp(op, 200, "ok")

\* ... followed, in the operations on one card, by the card lookup and the ownership check
CardGuard(op, g, ps, cid) ==
    LET r == SessionGuard(op, g, ps) IN
    IF r.code # 200 THEN r
    ELSE IF get_card_by_id(cid) = {} THEN Resp(op, 404, "Card not found")
    ELSE IF ~OwnsCard(CHOOSE c \in get_card_by_id(cid) : TRUE, ps)
        THEN Resp(op, 403, "This card is not yours")
    ELSE Resp(op, 200, "ok")

CardOf(cid) == CHOOSE c \in get_card_by_id(cid) : TRUE

\* All the orders .order_by(position) can list the cards of S in.
PositionOrders(S) ==
    {o \in Orderings(S) : \A i \in 1..(Len(o) - 1) : o[i].position <= o[i + 1].position}

\* The effect of a zone operation: the response is that of the trailing
\* get_game_state call, the cards change when the guards passed.
ZoneEffect(op, g, u, guard, newCards) ==
    \E player \in FirstChoices(get_player(g, u)) :
        /\ response' = IF guard.code = 200 THEN GetGameStateResult(op, g, u, player) ELSE guard
        /\ cards' = IF guard.code = 200 THEN newCards ELSE cards
        /\ nops' = IF guard.code = 200 THEN nops + 1 ELSE nops
        /\ UNCHANGED <<configVars, lobbyVars, gameStates, playerStates, seq, tasks>>

\* GameService.draw_card
DrawCard(g, u) ==
    \E ps \in PlayerStateChoices(g, u) :
        LET guard == SessionGuard("draw", g, ps) IN
        \E library \in IF guard.code = 200
                         THEN PositionOrders(get_player_cards_in_zone(cards, ps.id, LIBRARY))
                         ELSE {<<>>} :
            ZoneEffect("draw", g, u, guard,
                       IF library = <<>> THEN cards ELSE draw_cards(cards, ps.id, 1, library))

\* A move that untaps the card and clears its place on the battlefield
move_card_untapping(cid, zone, position) ==
    {IF c.id = cid
       THEN [c EXCEPT !.zone = zone, !.position = position, !.is_tapped = FALSE,
                      !.battlefield_x = 0, !.battlefield_y = 0]
       ELSE c : c \in cards}

\* A move that hands the card to the newest player state
move_card_reowned(cid, zone, position) ==
    {IF c.id = cid
       THEN [c EXCEPT !.zone = zone, !.position = position,
                      !.player_game_state_id = Max(Ids(playerStates))]
       ELSE c : c \in cards}

\* GameCardRepository.move_card
move_card(cid, zone, position) ==
    {IF c.id = cid THEN [c EXCEPT !.zone = zone, !.position = position] ELSE c : c \in cards}

\* A play that accepts the card from any zone
PlayableFromAnyZone(card) == TRUE

\* The zone play_card requires the card to be in
PlayableFrom(card) == card.zone = HAND

\* GameService.play_card
PlayResult(g, ps, cid) ==
    LET r == CardGuard("play", g, ps, cid) IN
    IF r.code # 200 THEN r
    ELSE IF ~PlayableFrom(CardOf(cid)) THEN Resp("play", 400, "Card is not in hand")
    ELSE r

PlayCard(g, u, cid, target_zone) ==
    \E ps \in PlayerStateChoices(g, u) :
        LET guard == PlayResult(g, ps, cid) IN
        ZoneEffect("play", g, u, guard,
                   move_card(cid, target_zone,
                             Cardinality(get_player_cards_in_zone(cards, ps.id, target_zone))))

\* GameService.move_card
MoveCard(g, u, cid, target_zone, position) ==
    \E ps \in PlayerStateChoices(g, u) :
        ZoneEffect("move", g, u, CardGuard("move", g, ps, cid),
                   move_card(cid, target_zone, position))

\* a tap that sets is_tapped instead of flipping it
set_tapped(cid) ==
    {IF c.id = cid THEN [c EXCEPT !.is_tapped = TRUE] ELSE c : c \in cards}

\* GameCardRepository.toggle_tapped
toggle_tapped(cid) ==
    {IF c.id = cid THEN [c EXCEPT !.is_tapped = ~c.is_tapped] ELSE c : c \in cards}

\* GameService.tap_card
TapCard(g, u, cid) ==
    \E ps \in PlayerStateChoices(g, u) :
        ZoneEffect("tap", g, u, CardGuard("tap", g, ps, cid), toggle_tapped(cid))

\* GameCardRepository.update_battlefield_position
update_battlefield_position(cid, x, y) ==
    {IF c.id = cid THEN [c EXCEPT !.battlefield_x = x, !.battlefield_y = y] ELSE c : c \in cards}

\* a reposition without the check of the card's zone
RepositionResultAnyZone(g, ps, cid) == CardGuard("reposition", g, ps, cid)

\* GameService.update_battlefield_position
RepositionResult(g, ps, cid) ==
    LET r == CardGuard("reposition", g, ps, cid) IN
    IF r.code # 200 THEN r
    ELSE IF CardOf(cid).zone # BATTLEFIELD
        THEN Resp("reposition", 400, "Card is not on the battlefield")
    ELSE r

UpdateBattlefieldPosition(g, u, cid, x, y) ==
    \E ps \in PlayerStateChoices(g, u) :
        ZoneEffect("reposition", g, u, RepositionResult(g, ps, cid),
                   update_battlefield_position(cid, x, y))

\* an untap of the caller's cards in every zone
untap_every_zone(psid) ==
    {IF c.player_game_state_id = psid /\ c.is_tapped
       THEN [c EXCEPT !.is_tapped = FALSE] ELSE c : c \in cards}

\* untap_all lines 850-857: the caller's BATTLEFIELD cards that are tapped
untap_battlefield(psid) ==
    {IF c.player_game_state_id = psid /\ c.zone = BATTLEFIELD /\ c.is_tapped
       THEN [c EXCEPT !.is_tapped = FALSE] ELSE c : c \in cards}

\* GameService.untap_all
UntapAll(g, u) ==
    \E ps \in PlayerStateChoices(g, u) :
        ZoneEffect("untap_all", g, u, SessionGuard("untap_all", g, ps),
                   untap_battlefield(ps.id))

\* ------------------------------------------------------------ specifications
ScryfallIds == {"cmdr", "bolt", "land", "lost"}

DeckCard(id, sid, quantity, is_commander) ==
    [id |-> id, card_scryfall_id |-> sid, quantity |-> quantity, is_commander |-> is_commander]

\* One deck per user: user 1 plays a single card, the others a commander and
\* two copies of a card.
SmallDecks ==
    [d \in Users |->
        [owner_id |-> d,
         cards |-> IF d = 1 THEN <<DeckCard(1, "land", 1, FALSE)>>
                   ELSE <<DeckCard(2 * d - 1, "cmdr", 1, TRUE),
                          DeckCard(2 * d, "bolt", 2, FALSE)>>]]

AllResolve == [s \in ScryfallIds |-> "data"]

HostRow(g, u) ==
    [id |-> 1, game_room_id |-> g, user_id |-> u, status |-> ACCEPTED,
     is_host |-> TRUE, deck_id |-> Null]

\* The store after create_game by user 1: the room and its host membership.
InitLobby ==
    /\ useSqlite \in BOOLEAN
    /\ \E m \in MinPlayers..MaxSeats :
          rooms = (1 :> [host_id |-> 1, max_players |-> m, status |-> WAITING,
                         invite_code |-> 1])
    /\ players = {HostRow(1, 1)}
    /\ decks = SmallDecks
    /\ scryfall = AllResolve
    /\ gameStates = {}
    /\ playerStates = {}
    /\ cards = {}
    /\ seq = [players |-> IF useSqlite THEN 0 ELSE 1, gs |-> 0, ps |-> 0, cards |-> 0, gen |-> 0]
    /\ tasks = {}
    /\ nops = 0
    /\ response = Resp("create", 201, "ok")

GameIds == DOMAIN rooms
PlayerIds == 1..(MaxPlayerRows + 1)
DeckIds == 1..(MaxUsers + 1)
CardIds == {0} \cup Ids(cards)

\* The membership workflow of a room: join, accept, reject, leave.
LobbyJoin == \E g \in GameIds, u \in Users :
    JoinGame(g, u) /\ Ids(players') \subseteq 1..MaxPlayerRows
LobbyAccept == \E g \in GameIds, u \in Users, pid \in PlayerIds : AcceptPlayer(g, pid, u)
LobbyReject == \E g \in GameIds, u \in Users, pid \in PlayerIds : RejectPlayer(g, pid, u)
LobbyLeave == \E g \in GameIds, u \in Users : LeaveGame(g, u)

NextLobby == LobbyJoin \/ LobbyAccept \/ LobbyReject \/ LobbyLeave

SpecLobby == InitLobby /\ [][NextLobby]_vars

\* A room whose host and user 2 are accepted and have selected their decks
\* (create, join, accept, select_deck twice), user 3 being no member.
InitGame ==
    /\ useSqlite \in BOOLEAN
    /\ rooms = (1 :> [host_id |-> 1, max_players |-> MinPlayers, status |-> WAITING,
                      invite_code |-> 1])
    /\ players = {[HostRow(1, 1) EXCEPT !.deck_id = 1],
                  [id |-> 2, game_room_id |-> 1, user_id |-> 2, status |-> ACCEPTED,
                   is_host |-> FALSE, deck_id |-> 2]}
    /\ decks = SmallDecks
    /\ scryfall = AllResolve
    /\ gameStates = {}
    /\ playerStates = {}
    /\ cards = {}
    /\ seq = [players |-> IF useSqlite THEN 0 ELSE 2, gs |-> 0, ps |-> 0, cards |-> 0, gen |-> 0]
    /\ tasks = {}
    /\ nops = 0
    /\ response = Resp("select_deck", 200, "ok")

\* A game being played: start, stop, reads and the zone operations.
GameStart == \E g \in GameIds, u \in Users :
    /\ StartResult(g, u).code = 200 => seq.gen < MaxGameSessions
    /\ StartGame(g, u)
GameStop == \E g \in GameIds, u \in Users : StopGame(g, u)
GameRead == \E g \in GameIds, u \in Users : GetGameState(g, u)
GameDraw == \E g \in GameIds, u \in Users : DrawCard(g, u) /\ nops' <= MaxOps

\* Whether a request on the card can pass the guards shared by the card
\* operations; the arguments beyond the card are enumerated for such requests only,
\* a rejected request gives the same response whatever they are.
MayPass(g, u, cid) ==
    /\ nops < MaxOps
    /\ \E ps \in PlayerStateChoices(g, u) : CardGuard("any", g, ps, cid).code = 200

GamePlay == \E g \in GameIds, u \in Users, cid \in CardIds :
    \E z \in IF MayPass(g, u, cid) THEN CardZone ELSE {BATTLEFIELD} :
        PlayCard(g, u, cid, z) /\ nops' <= MaxOps
GameMove == \E g \in GameIds, u \in Users, cid \in CardIds :
    \E z \in IF MayPass(g, u, cid) THEN CardZone ELSE {BATTLEFIELD} :
    \E pos \in IF MayPass(g, u, cid) THEN 0..MaxPos ELSE {0} :
        MoveCard(g, u, cid, z, pos) /\ nops' <= MaxOps
GameTap == \E g \in GameIds, u \in Users, cid \in CardIds : TapCard(g, u, cid) /\ nops' <= MaxOps
GameReposition == \E g \in GameIds, u \in Users, cid \in CardIds :
    \E x \in IF MayPass(g, u, cid) THEN 1..MaxCoord ELSE {1} :
    \E y \in IF MayPass(g, u, cid) THEN 1..MaxCoord ELSE {1} :
        UpdateBattlefieldPosition(g, u, cid, x, y) /\ nops' <= MaxOps
GameUntapAll == \E g \in GameIds, u \in Users : UntapAll(g, u) /\ nops' <= MaxOps

NextGame ==
    \/ GameStart \/ GameStop \/ GameRead \/ GameDraw \/ GamePlay \/ GameMove
    \/ GameTap \/ GameReposition \/ GameUntapAll

SpecGame == InitGame /\ [][NextGame]_vars

\* One deck per user holding a single card.
TinyDecks ==
    [d \in Users |-> [owner_id |-> d, cards |-> <<DeckCard(d, "land", 1, FALSE)>>]]

\* The store after create_game by user 1 of a public or private room with or
\* without a seat beyond the two needed to start, every user owning a one-card deck.
InitLife ==
    /\ useSqlite \in BOOLEAN
    /\ \E m \in MaxSeats..(MaxSeats + 1), public \in BOOLEAN :
          rooms = (1 :> [host_id |-> 1, max_players |-> m, status |-> WAITING,
                         invite_code |-> 1, is_public |-> public])
    /\ players = {HostRow(1, 1)}
    /\ decks = TinyDecks
    /\ scryfall = AllResolve
    /\ gameStates = {}
    /\ playerStates = {}
    /\ cards = {}
    /\ seq = [players |-> IF useSqlite THEN 0 ELSE 1, gs |-> 0, ps |-> 0, cards |-> 0, gen |-> 0]
    /\ tasks = {}
    /\ nops = 0
    /\ response = Resp("create", 201, "ok")

\* The life of a room: the membership workflow, deck selection, start, stop
\* and reads of the game state.
LifeJoin == \E g \in GameIds, u \in Users :
    JoinGame(g, u) /\ Ids(players') \subseteq 1..MaxLifeRows
LifeAccept == \E g \in GameIds, u \in Users, pid \in 1..MaxLifeRows : AcceptPlayer(g, pid, u)
LifeReject == \E g \in GameIds, u \in Users, pid \in 1..MaxLifeRows : RejectPlayer(g, pid, u)
LifeLeave == \E g \in GameIds, u \in Users : LeaveGame(g, u)
LifeSelectDeck == \E g \in GameIds, u \in Users, d \in DeckIds : SelectDeck(g, u, d)
LifeStart == \E g \in GameIds, u \in Users :
    /\ StartResult(g, u).code = 200 => seq.gen < MaxSessions
    /\ StartGame(g, u)
LifeStop == \E g \in GameIds, u \in Users : StopGame(g, u)
LifeRead == \E g \in GameIds, u \in Users : GetGameState(g, u)

NextLife ==
    \/ LifeJoin \/ LifeAccept \/ LifeReject \/ LifeLeave
    \/ LifeSelectDeck \/ LifeStart \/ LifeStop \/ LifeRead

SpecLife == InitLife /\ [][NextLife]_vars

\* ScryfallService.get_card_by_scryfall_id per card: card data, None, or an exception.
LookupOutcomes == {"data", "none", "error"}

\* A deck of user 2: an optional commander entry, an optional entry "lost",
\* and q copies of a card.
DealDeck(withCommander, withLost, q) ==
    (IF withCommander THEN <<DeckCard(3, "cmdr", 1, TRUE)>> ELSE <<>>)
        \o (IF withLost THEN <<DeckCard(4, "lost", 2, FALSE)>> ELSE <<>>)
        \o <<DeckCard(5, "bolt", q, FALSE)>>

\* A room ready to start: the host plays a one-card deck, user 2 a deck drawn
\* from DealDeck, and the lookups of "lost" and "cmdr" may fail.
InitDeal ==
    /\ useSqlite \in BOOLEAN
    /\ rooms = (1 :> [host_id |-> 1, max_players |-> MinPlayers, status |-> WAITING,
                      invite_code |-> 1])
    /\ players = {[HostRow(1, 1) EXCEPT !.deck_id = 1],
                  [id |-> 2, game_room_id |-> 1, user_id |-> 2, status |-> ACCEPTED,
                   is_host |-> FALSE, deck_id |-> 2]}
    /\ \E withCommander \in BOOLEAN, withLost \in BOOLEAN, q \in {1, 2, MaxQty} :
          decks = [SmallDecks EXCEPT ![2].cards = DealDeck(withCommander, withLost, q)]
    /\ \E lost \in LookupOutcomes, cmdr \in {"data", "none"} :
          scryfall = [AllResolve EXCEPT !["lost"] = lost, !["cmdr"] = cmdr]
    /\ gameStates = {}
    /\ playerStates = {}
    /\ cards = {}
    /\ seq = [players |-> IF useSqlite THEN 0 ELSE 2, gs |-> 0, ps |-> 0, cards |-> 0, gen |-> 0]
    /\ tasks = {}
    /\ nops = 0
    /\ response = Resp("select_deck", 200, "ok")

\* Dealing: the start of a room that waits, and reads of the dealt session.
DealStart == \E g \in GameIds, u \in Users :
    /\ rooms[g].status = WAITING
    /\ StartGame(g, u)
DealRead == \E g \in GameIds, u \in Users : GetGameState(g, u)

NextDeal == DealStart \/ DealRead

SpecDeal == InitDeal /\ [][NextDeal]_vars

\* --------------------------------------------------- drawing and playing
\* The deck of the host: q copies of one card, so that the opening hand leaves
\* q - OpeningHand cards in the LIBRARY.
DrawDeck(q) == <<DeckCard(1, "land", q, FALSE)>>

\* A room ready to start: the host plays a deck of MaxQty or MaxQty + 1 cards,
\* user 2 a one-card deck.
InitDraw ==
    /\ useSqlite \in BOOLEAN
    /\ rooms = (1 :> [host_id |-> 1, max_players |-> MinPlayers, status |-> WAITING,
                      invite_code |-> 1])
    /\ players = {[HostRow(1, 1) EXCEPT !.deck_id = 1],
                  [id |-> 2, game_room_id |-> 1, user_id |-> 2, status |-> ACCEPTED,
                   is_host |-> FALSE, deck_id |-> 2]}
    /\ \E q \in MaxQty..(MaxQty + 1) :
          decks = [TinyDecks EXCEPT ![1].cards = DrawDeck(q)]
    /\ scryfall = AllResolve
    /\ gameStates = {}
    /\ playerStates = {}
    /\ cards = {}
    /\ seq = [players |-> IF useSqlite THEN 0 ELSE 2, gs |-> 0, ps |-> 0, cards |-> 0, gen |-> 0]
    /\ tasks = {}
    /\ nops = 0
    /\ response = Resp("select_deck", 200, "ok")

\* The lowest id among the rows of S.
LowestId(S) == CHOOSE x \in Ids(S) : \A y \in Ids(S) : x <= y

\* The card ids a play request names: an unknown id and, for every player and
\* zone, the card of lowest id the player holds there.
PlayCandidates ==
    {0} \cup {LowestId(get_player_cards_in_zone(cards, x[1].id, x[2])) :
                 x \in {y \in playerStates \X CardZone :
                          get_player_cards_in_zone(cards, y[1].id, y[2]) # {}}}

\* Whether a play of the card by the user can pass every check of play_card.
PlayMayPass(g, u, cid) ==
    /\ nops < MaxDrawOps
    /\ \E ps \in PlayerStateChoices(g, u) : PlayResult(g, ps, cid).code = 200

DrawStart == \E g \in GameIds, u \in Users :
    /\ rooms[g].status = WAITING
    /\ StartGame(g, u)
DrawDraw == \E g \in GameIds, u \in Users : DrawCard(g, u) /\ nops' <= MaxDrawOps
DrawPlay == \E g \in GameIds, u \in Users, cid \in PlayCandidates :
    \E z \in IF PlayMayPass(g, u, cid) THEN CardZone ELSE {BATTLEFIELD} :
        PlayCard(g, u, cid, z) /\ nops' <= MaxDrawOps

NextDraw == DrawStart \/ DrawDraw \/ DrawPlay

SpecDraw == InitDraw /\ [][NextDraw]_vars

\* ------------------------------------------- start_game between its awaits
\* start_game awaits the card-metadata lookup of every deck entry (line 371);
\* the event loop runs other requests at each of these awaits.  A task is a
\* start_game call suspended at the lookup of entry k of player i.
RunningTasks == {t \in tasks : t.state = "running"}

\* An insert that references game state gsid is refused by PostgreSQL when the
\* row is gone (foreign key); SQLite, foreign keys not enabled, accepts it.
ForeignKeyHolds(S, gsid) == useSqlite \/ gsid \in Ids(S.gameStates)

\* The loop of start_game from player i up to its next await: create the player
\* state, skip a player without deck entries, suspend at the first lookup.
RECURSIVE BeginPlayer(_, _, _)
BeginPlayer(S, t, i) ==
    IF i > Len(t.accepted) THEN [st |-> S, task |-> [t EXCEPT !.state = "done", !.code = 200]]
    ELSE IF ~ForeignKeyHolds(S, t.gsid)
        THEN [st |-> S, task |-> [t EXCEPT !.state = "failed", !.code = 500]]
    ELSE LET p == t.accepted[i]
             psid == NewId(S.playerStates, S.seq.ps)
             S1 == InsertPlayerState(S, t.gsid, t.gen, t.g, p.user_id, i - 1, <<>>, t.starting)
         IN IF get_deck_cards(p.deck_id) = <<>> THEN BeginPlayer(S1, t, i + 1)
            ELSE [st |-> S1, task |-> [t EXCEPT !.i = i, !.psid = psid, !.k = 1]]

\* The variables after a step of a start_game task that ran up to R.task,
\* others being the other tasks
TaskStep(R, others) ==
    /\ gameStates' = R.st.gameStates
    /\ playerStates' = R.st.playerStates
    /\ cards' = R.st.cards
    /\ seq' = R.st.seq
    /\ tasks' = others \cup {R.task}
    /\ rooms' = IF R.task.state = "done" THEN SetRoomStatus(R.task.g, IN_PROGRESS) ELSE rooms
    /\ response' = IF R.task.state = "done" THEN Resp("start", 200, "ok")
                   ELSE IF R.task.state = "failed" THEN Resp("start", 500, "IntegrityError")
                   ELSE response
    /\ UNCHANGED <<configVars, players, nops>>

\* start_game from its entry to its first await (lines 304-371)
StartBegin(g, u) ==
    LET r == StartResult(g, u) IN
    IF r.code # 200
    THEN /\ response' = r
         /\ UNCHANGED <<configVars, lobbyVars, sessionVars, tasks, nops>>
    ELSE \E accepted \in RowOrders(get_accepted_players(g)) :
         \E starting \in get_accepted_players(g) :
            LET existing == get_by_game_room_id(g)
                S0 == IF existing = {} THEN Tables
                      ELSE DeleteGameStateRow(Tables, (CHOOSE gs \in existing : TRUE).id)
                S1 == InsertGameState(S0, g, starting.user_id)
                t == [id |-> Cardinality(tasks) + 1, g |-> g, u |-> u,
                      gsid |-> NewId(S0.gameStates, S0.seq.gs), gen |-> S1.seq.gen,
                      accepted |-> accepted, starting |-> starting.user_id,
                      i |-> 0, psid |-> 0, k |-> 0, state |-> "running", code |-> 0,
                      overlapped |-> RunningTasks # {}]
                R == BeginPlayer(S1, t, 1)
            IN TaskStep(R, {[x EXCEPT !.overlapped = @ \/ x.state = "running"] : x \in tasks})

\* start_game from the return of a lookup to its next await or its end
\* (lines 371-438): the last lookup of a player is followed by create_cards, the
\* shuffle, the commander set-aside, the opening hand and the next player state.
StartResume(t) ==
    LET p == t.accepted[t.i]
        dcs == get_deck_cards(p.deck_id)
    IN IF t.k < Len(dcs)
       THEN /\ tasks' = (tasks \ {t}) \cup {[t EXCEPT !.k = @ + 1]}
            /\ UNCHANGED <<configVars, lobbyVars, sessionVars, nops, response>>
       ELSE IF ExpandDeck(dcs) # <<>>
               /\ ~(ForeignKeyHolds(Tables, t.gsid)
                    /\ (useSqlite \/ t.psid \in Ids(playerStates)))
       THEN TaskStep([st |-> Tables, task |-> [t EXCEPT !.state = "failed", !.code = 500]],
                     tasks \ {t})
       ELSE \E perm \in Shuffles(Len(ExpandDeck(dcs))) :
               TaskStep(BeginPlayer(DealCards(Tables, t.gsid, t.psid, t.gen, t.g,
                                              p.deck_id, perm), t, t.i + 1),
                        tasks \ {t})

\* A room ready to start, as InitGame.
InitRace == InitGame

\* Requests served while start_game calls are suspended at their awaits.
RaceStartBegin == \E g \in GameIds, u \in Users :
    /\ StartResult(g, u).code = 200 => Cardinality(tasks) < MaxStarts
    /\ StartBegin(g, u)
RaceStartResume == \E t \in RunningTasks : StartResume(t)
RaceRead == \E g \in GameIds, u \in Users : GetGameState(g, u)
RaceTap == \E g \in GameIds, u \in Users, cid \in CardIds : TapCard(g, u, cid) /\ nops' <= MaxOps

NextRace == RaceStartBegin \/ RaceStartResume \/ RaceRead \/ RaceTap

SpecRace == InitRace /\ [][NextRace]_vars

\* ------------------------------------- zone operations between their awaits
\* A write that comes after the await
WritesAfterAwait == FALSE

\* A zone operation runs its checks and its write without an await and then
\* awaits get_game_state (lines 610-612, 667-669, 716-718): the event loop can
\* run other requests only after the write.
WritesBeforeAwait == TRUE

\* A zone request suspended at its await: what it asked for, the rows it read
\* and whether its write is done.
ZoneTask(op, g, u, psid, cid, zone, pos, seen) ==
    [n |-> nops + 1, op |-> op, g |-> g, u |-> u, psid |-> psid, cid |-> cid,
     zone |-> zone, pos |-> pos,
     seen |-> IF WritesBeforeAwait THEN <<>> ELSE seen,
     wrote |-> WritesBeforeAwait]

\* The write of a suspended request computed from what it read before the await.
WriteOf(t) ==
    IF t.op = "draw"
    THEN IF t.seen = <<>> THEN cards ELSE draw_cards(cards, t.psid, 1, t.seen)
    ELSE move_card(t.cid, t.zone, t.pos)

\* A zone request up to its await: refused by a check, or written and suspended.
ZoneBegin(guard, task, newCards) ==
    IF guard.code # 200
    THEN /\ response' = guard
         /\ UNCHANGED <<configVars, lobbyVars, sessionVars, tasks, nops>>
    ELSE /\ cards' = IF WritesBeforeAwait THEN newCards ELSE cards
         /\ tasks' = tasks \cup {task}
         /\ nops' = nops + 1
         /\ UNCHANGED <<configVars, lobbyVars, gameStates, playerStates, seq, response>>

\* draw_card up to its await
DrawBegin(g, u) ==
    \E ps \in PlayerStateChoices(g, u) :
        LET guard == SessionGuard("draw", g, ps) IN
        \E library \in IF guard.code = 200
                         THEN PositionOrders(get_player_cards_in_zone(cards, ps.id, LIBRARY))
                         ELSE {<<>>} :
            ZoneBegin(guard, ZoneTask("draw", g, u, ps.id, 0, HAND, 0, library),
                      IF library = <<>> THEN cards ELSE draw_cards(cards, ps.id, 1, library))

\* play_card up to its await
PlayBegin(g, u, cid, target_zone) ==
    \E ps \in PlayerStateChoices(g, u) :
        LET position == Cardinality(get_player_cards_in_zone(cards, ps.id, target_zone)) IN
        ZoneBegin(PlayResult(g, ps, cid),
                  ZoneTask("play", g, u, ps.id, cid, target_zone, position, <<>>),
                  move_card(cid, target_zone, position))

\* move_card up to its await
MoveBegin(g, u, cid, target_zone, position) ==
    \E ps \in PlayerStateChoices(g, u) :
        ZoneBegin(CardGuard("move", g, ps, cid),
                  ZoneTask("move", g, u, ps.id, cid, target_zone, position, <<>>),
                  move_card(cid, target_zone, position))

\* The request resumes: get_game_state builds the answer.
ZoneResume(t) ==
    \E player \in FirstChoices(get_player(t.g, t.u)) :
        /\ cards' = IF t.wrote THEN cards ELSE WriteOf(t)
        /\ response' = GetGameStateResult(t.op, t.g, t.u, player)
        /\ tasks' = tasks \ {t}
        /\ UNCHANGED <<configVars, lobbyVars, gameStates, playerStates, seq, nops>>

\* The zones a concurrent play or move names.
RaceZones == {BATTLEFIELD, GRAVEYARD}

\* The requests that race: those of a participant, on a card the participant owns.
ConcMayPass(g, u, cid) ==
    /\ nops < MaxConc
    /\ \E ps \in PlayerStateChoices(g, u) : CardGuard("any", g, ps, cid).code = 200

\* A room ready to start: the host plays a deck of MaxQty + 1 cards, which leaves
\* two cards in the LIBRARY after the opening hand, user 2 a one-card deck.
InitConc ==
    /\ useSqlite \in BOOLEAN
    /\ rooms = (1 :> [host_id |-> 1, max_players |-> MinPlayers, status |-> WAITING,
                      invite_code |-> 1])
    /\ players = {[HostRow(1, 1) EXCEPT !.deck_id = 1],
                  [id |-> 2, game_room_id |-> 1, user_id |-> 2, status |-> ACCEPTED,
                   is_host |-> FALSE, deck_id |-> 2]}
    /\ decks = [TinyDecks EXCEPT ![1].cards = DrawDeck(MaxQty + 1)]
    /\ scryfall = AllResolve
    /\ gameStates = {}
    /\ playerStates = {}
    /\ cards = {}
    /\ seq = [players |-> IF useSqlite THEN 0 ELSE 2, gs |-> 0, ps |-> 0, cards |-> 0, gen |-> 0]
    /\ tasks = {}
    /\ nops = 0
    /\ response = Resp("select_deck", 200, "ok")

ConcStart == \E g \in GameIds, u \in Users :
    /\ rooms[g].status = WAITING
    /\ StartGame(g, u)
ConcDraw == \E g \in GameIds, u \in Users :
    /\ nops < MaxConc
    /\ \E ps \in PlayerStateChoices(g, u) : SessionGuard("draw", g, ps).code = 200
    /\ DrawBegin(g, u)
ConcPlay == \E g \in GameIds, u \in Users, cid \in PlayCandidates, z \in RaceZones :
    ConcMayPass(g, u, cid) /\ PlayBegin(g, u, cid, z)
ConcMove == \E g \in GameIds, u \in Users, cid \in PlayCandidates, z \in RaceZones :
    ConcMayPass(g, u, cid) /\ MoveBegin(g, u, cid, z, 0)
ConcResume == \E t \in tasks : ZoneResume(t)

NextConc == ConcStart \/ ConcDraw \/ ConcPlay \/ ConcMove \/ ConcResume

SpecConc == InitConc /\ [][NextConc]_vars

\* --------------------------------------------- creating and deleting rooms
InviteCodes == 1..MaxCodes

\* GameRoomRepository.get_by_invite_code
get_by_invite_code(code) == {g \in DOMAIN rooms : rooms[g].invite_code = code}

\* GameService._generate_unique_invite_code: random codes until one is in no room
_generate_unique_invite_code == {c \in InviteCodes : get_by_invite_code(c) = {}}

RoomRows == {[id |-> g] : g \in DOMAIN rooms}

\* game_rooms.invite_code without its unique index
InviteCodeNotUnique == FALSE

\* GameRoom.invite_code: unique=True, a second row with a code is refused
InviteCodeUnique == TRUE

\* create_game, _generate_unique_invite_code: the code is looked up, the room
\* is not stored yet.
CreateCode(u, m, public) ==
    \E code \in _generate_unique_invite_code :
        /\ tasks' = tasks \cup {[op |-> "create", n |-> nops + 1, u |-> u, code |-> code,
                                 g |-> 0, max_players |-> m, is_public |-> public]}
        /\ nops' = nops + 1
        /\ UNCHANGED <<configVars, lobbyVars, sessionVars, response>>

\* create_game, game_repo.create: the room row and its commit.
CreateRoom(t) ==
    LET g == NewId(RoomRows, seq.rooms) IN
    /\ t.op = "create" /\ t.g = 0
    /\ seq' = [seq EXCEPT !.rooms = IF useSqlite THEN @ ELSE @ + 1]
    /\ IF InviteCodeUnique /\ get_by_invite_code(t.code) # {}
         THEN /\ response' = Resp("create", 500, "IntegrityError")
              /\ tasks' = tasks \ {t}
              /\ UNCHANGED rooms
         ELSE /\ rooms' = (g :> [host_id |-> t.u, max_players |-> t.max_players,
                                 status |-> WAITING, invite_code |-> t.code,
                                 is_public |-> t.is_public]) @@ rooms
              /\ tasks' = (tasks \ {t}) \cup {[t EXCEPT !.g = g]}
              /\ UNCHANGED response
    /\ UNCHANGED <<configVars, players, gameStates, playerStates, cards, nops>>

\* create_game from player_repo.create_player on: the host's membership in a
\* commit of its own, then the response. PostgreSQL refuses a membership of a
\* room that is gone, SQLite stores it; the response then fails on the room.
CreateHost(t) ==
    LET gone == t.g \notin DOMAIN rooms IN
    /\ t.op = "create" /\ t.g # 0
    /\ players' = IF gone /\ ~useSqlite THEN players
                  ELSE players \cup
                        {[id |-> NewId(players, seq.players), game_room_id |-> t.g,
                          user_id |-> t.u, status |-> ACCEPTED, is_host |-> TRUE,
                          deck_id |-> Null]}
    /\ seq' = [seq EXCEPT !.players = IF useSqlite THEN @ ELSE @ + 1]
    /\ response' = IF gone THEN Resp("create", 500, "room is gone")
                   ELSE Resp("create", 201, "ok")
    /\ tasks' = tasks \ {t}
    /\ UNCHANGED <<configVars, rooms, gameStates, playerStates, cards, nops>>

\* GameRoomRepository.get_public_waiting_games / get_user_games
get_public_waiting_games ==
    {g \in DOMAIN rooms : rooms[g].is_public /\ rooms[g].status = WAITING}

get_user_games(u) ==
    {g \in DOMAIN rooms : \E p \in players : p.game_room_id = g /\ p.user_id = u}

\* GameService.list_games
ListGames(u) ==
    /\ response' = Resp("list", 200,
                        {[id |-> g, current_players |-> count_accepted(g),
                          is_host |-> rooms[g].host_id = u] :
                            g \in get_public_waiting_games \cup get_user_games(u)})
    /\ UNCHANGED <<configVars, lobbyVars, sessionVars, tasks, nops>>

\* GameService.delete_game. Session.delete(room) deletes the room's memberships
\* (cascade of GameRoom.players) and, GameRoom.game_state carrying no delete
\* cascade, sets game_room_id of the room's game state to NULL, which the
\* NOT NULL column refuses: the commit fails and nothing is deleted.
DeleteResult(g, u) ==
    IF ~GameExists(g) THEN Resp("delete", 404, "Game room not found")
    ELSE IF ~_is_host(g, u) THEN Resp("delete", 403, "Only the host can delete this game")
    ELSE IF get_by_game_room_id(g) # {} THEN Resp("delete", 500, "IntegrityError")
    ELSE Resp("delete", 204, "ok")

DeleteGame(g, u) ==
    LET r == DeleteResult(g, u) IN
    /\ response' = r
    /\ IF r.code = 204
         THEN /\ rooms' = [x \in DOMAIN rooms \ {g} |-> rooms[x]]
              /\ players' = {p \in players : p.game_room_id # g}
         ELSE UNCHANGED <<rooms, players>>
    /\ UNCHANGED <<configVars, sessionVars, tasks, nops>>

\* An empty store. The requests are taken at the granularity of their database
\* statements and commits, which is what the sessions of other worker threads
\* (list_games and delete_game are plain functions) and of other server
\* processes see; the coroutines of one event loop interleave less than that.
InitCreate ==
    /\ useSqlite \in BOOLEAN
    /\ rooms = <<>>
    /\ players = {}
    /\ decks = TinyDecks
    /\ scryfall = AllResolve
    /\ gameStates = {}
    /\ playerStates = {}
    /\ cards = {}
    /\ seq = [players |-> 0, rooms |-> 0, gs |-> 0, ps |-> 0, cards |-> 0, gen |-> 0]
    /\ tasks = {}
    /\ nops = 0
    /\ response = Resp("none", 200, "ok")

Hosts == 1..2
RoomIds == 1..MaxCreates

CreateBegin == \E u \in Hosts, public \in BOOLEAN :
    /\ nops < MaxCreates
    /\ Cardinality(tasks) < MaxConc
    /\ CreateCode(u, MinPlayers, public)
CreateInsert == \E t \in tasks :
    /\ Cardinality(DOMAIN rooms) < MaxRooms
    /\ CreateRoom(t)
CreateFinish == \E t \in tasks : CreateHost(t)
CreateJoin == \E g \in RoomIds, u \in Hosts :
    /\ tasks = {}
    /\ JoinGame(g, u)
    /\ Ids(players') \subseteq 1..MaxPlayerRows
CreateList == \E u \in Hosts : ListGames(u)
CreateDelete == \E g \in RoomIds, u \in Hosts : DeleteGame(g, u)

NextCreate ==
    \/ CreateBegin \/ CreateInsert \/ CreateFinish
    \/ CreateJoin \/ CreateList \/ CreateDelete

SpecCreate == InitCreate /\ [][NextCreate]_vars

\* A room ready to start (InitGame) and its life up to its deletion: start, stop,
\* reads of the game state and delete, each by any user, on the id of the room
\* also after the room is gone.
InitDelete == InitGame

DeleteStart == \E u \in Users :
    /\ StartResult(1, u).code = 200 => seq.gen < MaxGameSessions
    /\ StartGame(1, u)
DeleteStop == \E u \in Users : StopGame(1, u)
DeleteRead == \E u \in Users : GetGameState(1, u)
DeleteDelete == \E u \in Users : DeleteGame(1, u)

NextDelete == DeleteStart \/ DeleteStop \/ DeleteRead \/ DeleteDelete

SpecDelete == InitDelete /\ [][NextDelete]_vars

\* ------------------------------------------------ the router and its events
\* api/v1/games.py: the event each handler emits to the room game_<id>
EventOf(op) ==
    CASE op = "join" -> "player_join_request"
      [] op = "accept" -> "player_accepted"
      [] op = "reject" -> "player_rejected"
      [] op = "leave" -> "player_left"
      [] op = "start" -> "game_started"
      [] op = "stop" -> "game_stopped"
      [] op = "select_deck" -> "deck_selected"

\* sio.emit delivers the event or raises (get_sio() may also return None)
EmitOutcomes == {"sent", "raised"}

\* a handler without the try/except around its emit
EmitRaisedUncaught == FALSE

\* try: await sio_instance.emit(...) except Exception: logger.error(...)
EmitRaisedCaught == TRUE

Succeeded(r) == r.code \in {200, 204}

\* The response of a request with the events it delivered and whether the
\* handler logged a failed emit.
Answer(r, emitted, logged) ==
    [op |-> r.op, code |-> r.code, detail |-> r.detail, emitted |-> emitted,
     logged |-> logged]

\* A handler up to its emit: a refused request answers at once, otherwise the
\* change is committed and the handler goes on to emit.
RouterBegin(r, g, u, arg, newRooms, newPlayers, newSeq) ==
    IF ~Succeeded(r)
      THEN /\ response' = Answer(r, <<>>, FALSE)
           /\ UNCHANGED <<configVars, lobbyVars, sessionVars, tasks, nops>>
      ELSE /\ rooms' = newRooms
           /\ players' = newPlayers
           /\ seq' = newSeq
           /\ tasks' = tasks \cup {[op |-> r.op, g |-> g, u |-> u, arg |-> arg,
                                    n |-> nops + 1, r |-> r]}
           /\ nops' = nops + 1
           /\ UNCHANGED <<configVars, gameStates, playerStates, cards, response>>

RouterJoin(g, u) ==
    \E existing \in FirstChoices(get_player(g, u)) :
        RouterBegin(JoinResult(g, u, existing), g, u, Null, rooms,
                    players \cup {[id |-> NewId(players, seq.players), game_room_id |-> g,
                                   user_id |-> u, status |-> PENDING, is_host |-> FALSE,
                                   deck_id |-> Null]},
                    [seq EXCEPT !.players = IF useSqlite THEN @ ELSE @ + 1])

RouterAccept(g, pid, u) ==
    RouterBegin(AcceptResult(g, pid, u), g, u, pid, rooms, update_status(pid, ACCEPTED), seq)

RouterReject(g, pid, u) ==
    RouterBegin(RejectResult(g, pid, u), g, u, pid, rooms, update_status(pid, REJECTED), seq)

RouterLeave(g, u) ==
    \E player \in FirstChoices(get_player(g, u)) :
        RouterBegin(LeaveResult(g, u, player), g, u, player.id, rooms,
                    players \ {player}, seq)

\* The router's start_game and stop_game write the status of the room only.
RouterStart(g, u) ==
    RouterBegin(StartResult(g, u), g, u, Null, SetRoomStatus(g, IN_PROGRESS), players, seq)

RouterStop(g, u) ==
    RouterBegin(StopResult(g, u), g, u, Null, SetRoomStatus(g, WAITING), players, seq)

RouterSelectDeck(g, u, d) ==
    \E player \in FirstChoices(get_player(g, u)) :
        RouterBegin(SelectDeckResult(g, u, d, player), g, u, d, rooms,
                    set_deck(player.id, d), seq)

\* The router's delete_game: no emit.
RouterDelete(g, u) ==
    LET r == DeleteResult(g, u) IN
    /\ response' = Answer(r, <<>>, FALSE)
    /\ IF r.code = 204
         THEN /\ rooms' = [x \in DOMAIN rooms \ {g} |-> rooms[x]]
              /\ players' = {p \in players : p.game_room_id # g}
         ELSE UNCHANGED <<rooms, players>>
    /\ UNCHANGED <<configVars, sessionVars, tasks, nops>>

\* join_game and leave_game answer without reading the room again, the other
\* handlers build their response from it.
ReadsRoomAfterEmit(op) == op \notin {"join", "leave"}

\* The emit of a handler and its response. A room deleted before the event's
\* data are read makes that read raise inside the try; the handlers that build
\* their response from the room then fail.
RouterEmit(t) ==
    \E o \in EmitOutcomes, lost \in {t.g \notin DOMAIN rooms} \cup {FALSE} :
        LET raised == lost \/ o = "raised"
            r == IF (lost /\ ReadsRoomAfterEmit(t.op)) \/ (raised /\ ~EmitRaisedCaught)
                   THEN Resp(t.op, 500, "Internal Server Error")
                   ELSE t.r
        IN /\ response' = Answer(r,
                                 IF raised THEN <<>>
                                 ELSE <<[event |-> EventOf(t.op), room |-> t.g]>>,
                                 raised)
           /\ tasks' = tasks \ {t}
           /\ UNCHANGED <<configVars, lobbyVars, sessionVars, nops>>

\* A room with a free seat: the host has selected a deck, user 2 is accepted
\* and has not, user 3 is no member (create, join, accept, select_deck).
InitEmit ==
    /\ useSqlite \in BOOLEAN
    /\ rooms = (1 :> [host_id |-> 1, max_players |-> MaxSeats + 1, status |-> WAITING,
                      invite_code |-> 1])
    /\ players = {[HostRow(1, 1) EXCEPT !.deck_id = 1],
                  [id |-> 2, game_room_id |-> 1, user_id |-> 2, status |-> ACCEPTED,
                   is_host |-> FALSE, deck_id |-> Null]}
    /\ decks = TinyDecks
    /\ scryfall = AllResolve
    /\ gameStates = {}
    /\ playerStates = {}
    /\ cards = {}
    /\ seq = [players |-> IF useSqlite THEN 0 ELSE 2, gs |-> 0, ps |-> 0, cards |-> 0, gen |-> 0]
    /\ tasks = {}
    /\ nops = 0
    /\ response = Answer(Resp("select_deck", 200, "ok"),
                         <<[event |-> EventOf("select_deck"), room |-> 1]>>, FALSE)

\* The handlers are coroutines of one event loop: another one runs while a
\* handler waits in its emit. delete_game is a plain function on a worker thread.
EmitBound == nops < MaxEmits /\ Cardinality(tasks) < MaxConc
EmitJoin == \E u \in Users : EmitBound /\ RouterJoin(1, u)
EmitAccept == \E u \in Users, pid \in 1..MaxLifeRows : EmitBound /\ RouterAccept(1, pid, u)
EmitReject == \E u \in Users, pid \in 1..MaxLifeRows : EmitBound /\ RouterReject(1, pid, u)
EmitLeave == \E u \in Users : EmitBound /\ RouterLeave(1, u)
EmitStart == \E u \in Users : EmitBound /\ RouterStart(1, u)
EmitStop == \E u \in Users : EmitBound /\ RouterStop(1, u)
EmitSelectDeck == \E u \in Users, d \in DeckIds : EmitBound /\ RouterSelectDeck(1, u, d)
EmitDelete == \E u \in Users : RouterDelete(1, u)
EmitEmit == \E t \in tasks : RouterEmit(t)

NextEmit ==
    \/ EmitJoin \/ EmitAccept \/ EmitReject \/ EmitLeave \/ EmitStart \/ EmitStop
    \/ EmitSelectDeck \/ EmitDelete \/ EmitEmit

SpecEmit == InitEmit /\ [][NextEmit]_vars

\* A started game whose players tap their cards, up to MaxTaps taps.
InitTap == InitGame

TapStart == \E g \in GameIds, u \in Users :
    /\ StartResult(g, u).code = 200 => seq.gen < MaxGameSessions
    /\ StartGame(g, u)
TapTap == \E g \in GameIds, u \in Users, cid \in CardIds :
    TapCard(g, u, cid) /\ nops' <= MaxTaps
TapRead == \E g \in GameIds, u \in Users : GetGameState(g, u)

NextTap == TapStart \/ TapTap \/ TapRead

SpecTap == InitTap /\ [][NextTap]_vars

\* A started game in which cards reach the BATTLEFIELD, are tapped, placed and
\* untapped, up to MaxFieldOps operations passing their checks.
InitField == InitGame

\* As MayPass, within MaxFieldOps.
FieldMayPass(g, u, cid) ==
    /\ nops < MaxFieldOps
    /\ \E ps \in PlayerStateChoices(g, u) : CardGuard("any", g, ps, cid).code = 200

FieldStart == \E g \in GameIds, u \in Users :
    /\ StartResult(g, u).code = 200 => seq.gen < MaxGameSessions
    /\ StartGame(g, u)
FieldPlay == \E g \in GameIds, u \in Users, cid \in CardIds :
    PlayCard(g, u, cid, BATTLEFIELD) /\ nops' <= MaxFieldOps
FieldTap == \E g \in GameIds, u \in Users, cid \in CardIds :
    TapCard(g, u, cid) /\ nops' <= MaxFieldOps
FieldReposition == \E g \in GameIds, u \in Users, cid \in CardIds :
    \E x \in IF FieldMayPass(g, u, cid) THEN 1..MaxCoord ELSE {1} :
        UpdateBattlefieldPosition(g, u, cid, x, x + 1) /\ nops' <= MaxFieldOps
FieldUntapAll == \E g \in GameIds, u \in Users : UntapAll(g, u) /\ nops' <= MaxFieldOps

NextField ==
    \/ FieldStart \/ FieldPlay \/ FieldTap \/ FieldReposition \/ FieldUntapAll

SpecField == InitField /\ [][NextField]_vars

\* Two rooms side by side: users 1 and 2 sit in room 1, users 3 and 2 in room 2,
\* every member accepted with a one-card deck selected; room 2 has been started
\* by its host, room 1 waits.  One more start and up to MaxOps zone operations
\* that pass their checks follow.
InitOrder ==
    /\ useSqlite \in BOOLEAN
    /\ rooms = (1 :> [host_id |-> 1, max_players |-> MinPlayers, status |-> WAITING,
                      invite_code |-> 1])
               @@ (2 :> [host_id |-> 3, max_players |-> MinPlayers, status |-> IN_PROGRESS,
                         invite_code |-> 2])
    /\ players = {[HostRow(1, 1) EXCEPT !.deck_id = 1],
                  [id |-> 2, game_room_id |-> 1, user_id |-> 2, status |-> ACCEPTED,
                   is_host |-> FALSE, deck_id |-> 2],
                  [id |-> 3, game_room_id |-> 2, user_id |-> 3, status |-> ACCEPTED,
                   is_host |-> TRUE, deck_id |-> 3],
                  [id |-> 4, game_room_id |-> 2, user_id |-> 2, status |-> ACCEPTED,
                   is_host |-> FALSE, deck_id |-> 2]}
    /\ decks = TinyDecks
    /\ scryfall = AllResolve
    /\ gameStates = {[id |-> 1, game_room_id |-> 2, current_turn |-> 1, active_player_id |-> 3,
                      current_phase |-> "untap", starting_player_id |-> 3, gen |-> 1]}
    /\ playerStates = {[id |-> 1, user_id |-> 3, game_state_id |-> 1, gen |-> 1,
                        player_order |-> 0, is_active |-> TRUE, life_total |-> StartLife,
                        poison_counters |-> 0, room |-> 2],
                       [id |-> 2, user_id |-> 2, game_state_id |-> 1, gen |-> 1,
                        player_order |-> 1, is_active |-> FALSE, life_total |-> StartLife,
                        poison_counters |-> 0, room |-> 2]}
    /\ cards = {[id |-> i, game_state_id |-> 1, zone |-> HAND, player_game_state_id |-> i,
                 position |-> 0, gen |-> 1, room |-> 2, card_scryfall_id |-> "land",
                 deck_card_id |-> 4 - i, is_tapped |-> FALSE, is_face_up |-> TRUE,
                 battlefield_x |-> 0, battlefield_y |-> 0, is_attacking |-> FALSE,
                 is_blocking |-> FALSE, damage_received |-> 0] : i \in 1..2}
    /\ seq = IF useSqlite THEN [players |-> 0, gs |-> 0, ps |-> 0, cards |-> 0, gen |-> 1]
             ELSE [players |-> 4, gs |-> 1, ps |-> 2, cards |-> 2, gen |-> 1]
    /\ tasks = {}
    /\ nops = 0
    /\ response = Resp("start", 200, "ok")

OrderStart == \E g \in GameIds, u \in Users :
    /\ StartResult(g, u).code = 200 => seq.gen < MaxSessions
    /\ StartGame(g, u)
OrderDraw == \E g \in GameIds, u \in Users : DrawCard(g, u) /\ nops' <= MaxOps
OrderPlay == \E g \in GameIds, u \in Users, cid \in CardIds :
    PlayCard(g, u, cid, BATTLEFIELD) /\ nops' <= MaxOps
OrderMove == \E g \in GameIds, u \in Users, cid \in CardIds :
    MoveCard(g, u, cid, GRAVEYARD, 0) /\ nops' <= MaxOps
OrderTap == \E g \in GameIds, u \in Users, cid \in CardIds :
    TapCard(g, u, cid) /\ nops' <= MaxOps
OrderReposition == \E g \in GameIds, u \in Users, cid \in CardIds :
    UpdateBattlefieldPosition(g, u, cid, 1, 1) /\ nops' <= MaxOps
OrderUntapAll == \E g \in GameIds, u \in Users : UntapAll(g, u) /\ nops' <= MaxOps

NextOrder ==
    \/ OrderStart \/ OrderDraw \/ OrderPlay \/ OrderMove
    \/ OrderTap \/ OrderReposition \/ OrderUntapAll

SpecOrder == InitOrder /\ [][NextOrder]_vars

\* A game under way between users 1 and 2 with one-card decks: user 1 has
\* played the card to the BATTLEFIELD, tapped it and placed it at (1, 2), the
\* card of user 2 is in the hand.  Up to MaxMoveOps moves, plays and taps follow.
InitMove ==
    /\ useSqlite \in BOOLEAN
    /\ rooms = (1 :> [host_id |-> 1, max_players |-> MinPlayers, status |-> IN_PROGRESS,
                      invite_code |-> 1])
    /\ players = {[HostRow(1, 1) EXCEPT !.deck_id = 1],
                  [id |-> 2, game_room_id |-> 1, user_id |-> 2, status |-> ACCEPTED,
                   is_host |-> FALSE, deck_id |-> 2]}
    /\ decks = TinyDecks
    /\ scryfall = AllResolve
    /\ gameStates = {[id |-> 1, game_room_id |-> 1, current_turn |-> 1, active_player_id |-> 1,
                      current_phase |-> "untap", starting_player_id |-> 1, gen |-> 1]}
    /\ playerStates = {[id |-> i, user_id |-> i, game_state_id |-> 1, gen |-> 1,
                        player_order |-> i - 1, is_active |-> (i = 1),
                        life_total |-> StartLife, poison_counters |-> 0, room |-> 1]
                       : i \in 1..2}
    /\ cards = {[id |-> i, game_state_id |-> 1,
                 zone |-> IF i = 1 THEN BATTLEFIELD ELSE HAND,
                 player_game_state_id |-> i,
                 position |-> 0, gen |-> 1, room |-> 1, card_scryfall_id |-> "land",
                 deck_card_id |-> i, is_tapped |-> (i = 1), is_face_up |-> TRUE,
                 battlefield_x |-> IF i = 1 THEN 1 ELSE 0,
                 battlefield_y |-> IF i = 1 THEN 2 ELSE 0, is_attacking |-> FALSE,
                 is_blocking |-> FALSE, damage_received |-> 0] : i \in 1..2}
    /\ seq = IF useSqlite THEN [players |-> 0, gs |-> 0, ps |-> 0, cards |-> 0, gen |-> 1]
             ELSE [players |-> 2, gs |-> 1, ps |-> 2, cards |-> 2, gen |-> 1]
    /\ tasks = {}
    /\ nops = 0
    /\ response = Resp("reposition", 200, "ok")

\* As MayPass, within MaxMoveOps.
MoveMayPass(g, u, cid) ==
    /\ nops < MaxMoveOps
    /\ \E ps \in PlayerStateChoices(g, u) : CardGuard("any", g, ps, cid).code = 200

MovePlay == \E g \in GameIds, u \in Users, cid \in CardIds :
    \E z \in IF MoveMayPass(g, u, cid) THEN CardZone ELSE {BATTLEFIELD} :
        PlayCard(g, u, cid, z) /\ nops' <= MaxMoveOps
MoveMove == \E g \in GameIds, u \in Users, cid \in CardIds :
    \E z \in IF MoveMayPass(g, u, cid) THEN CardZone ELSE {BATTLEFIELD} :
    \E pos \in IF MoveMayPass(g, u, cid) THEN 0..MaxPos ELSE {0} :
        MoveCard(g, u, cid, z, pos) /\ nops' <= MaxMoveOps
MoveTap == \E g \in GameIds, u \in Users, cid \in CardIds :
    TapCard(g, u, cid) /\ nops' <= MaxMoveOps

NextMove == MovePlay \/ MoveMove \/ MoveTap

SpecMove == InitMove /\ [][NextMove]_vars

\* The host starts, restarts and stops the game; a stop_game request is served
\* whole, also while a start_game call is suspended at one of its awaits.
InitHalt == InitGame

HaltStartBegin == \E g \in GameIds, u \in Users :
    /\ StartResult(g, u).code = 200 => Cardinality(tasks) < MaxStarts
    /\ StartBegin(g, u)
HaltStartResume == \E t \in RunningTasks : StartResume(t)
HaltStop == \E g \in GameIds, u \in Users : StopGame(g, u)

NextHalt == HaltStartBegin \/ HaltStartResume \/ HaltStop

SpecHalt == InitHalt /\ [][NextHalt]_vars

\* A game that a player leaves: the room of InitGame is started, members leave
\* and up to MaxOps zone operations pass their checks.
InitQuit == InitGame

QuitStart == \E g \in GameIds, u \in Users :
    /\ StartResult(g, u).code = 200 => seq.gen < MaxGameSessions
    /\ StartGame(g, u)
QuitLeave == \E g \in GameIds, u \in Users : LeaveGame(g, u)
QuitDraw == \E g \in GameIds, u \in Users : DrawCard(g, u) /\ nops' <= MaxOps
QuitPlay == \E g \in GameIds, u \in Users, cid \in CardIds :
    PlayCard(g, u, cid, BATTLEFIELD) /\ nops' <= MaxOps
QuitMove == \E g \in GameIds, u \in Users, cid \in CardIds :
    MoveCard(g, u, cid, GRAVEYARD, 0) /\ nops' <= MaxOps
QuitTap == \E g \in GameIds, u \in Users, cid \in CardIds :
    TapCard(g, u, cid) /\ nops' <= MaxOps
QuitReposition == \E g \in GameIds, u \in Users, cid \in CardIds :
    UpdateBattlefieldPosition(g, u, cid, 1, 1) /\ nops' <= MaxOps
QuitUntapAll == \E g \in GameIds, u \in Users : UntapAll(g, u) /\ nops' <= MaxOps

NextQuit ==
    \/ QuitStart \/ QuitLeave \/ QuitDraw \/ QuitPlay \/ QuitMove
    \/ QuitTap \/ QuitReposition \/ QuitUntapAll

SpecQuit == InitQuit /\ [][NextQuit]_vars

\* -------------------------------------------------------------- properties
SessionOf(g) == CHOOSE gs \in get_by_game_room_id(g) : TRUE
CardsOf(psid, zone) == Ids(get_player_cards_in_zone(cards, psid, zone))
ViewIds(list) == {list[i].id : i \in 1..Len(list)}

\* C1: in every reachable state the number of ACCEPTED memberships of a room is
\* at most the room's max_players, and a join that succeeded found the accepted
\* count below max_players.
C1_CapacityInvariant ==
    \A g \in DOMAIN rooms :
        /\ count_accepted(g) <= rooms[g].max_players
        /\ response = Resp("join", 200, "Join request sent to host")
              => count_accepted(g) < rooms[g].max_players

\* C1 witness: the host's accept was refused with "Game is full" while a request is pending.
C1_Witness ==
    /\ response = Resp("accept", 400, "Game is full")
    /\ \E p \in players : p.status = PENDING
    /\ \A g \in DOMAIN rooms : count_accepted(g) = rooms[g].max_players

\* C10: no user has more than one PENDING-or-ACCEPTED membership in a room.
C10_OneLiveMembership ==
    \A g \in DOMAIN rooms, u \in Users :
        Cardinality({p \in get_player(g, u) : p.status \in {PENDING, ACCEPTED}}) <= 1

\* C2: the projection built for a viewer lists the LIBRARY and HAND of every
\* other player as empty, lists every player's BATTLEFIELD, GRAVEYARD, EXILE and
\* COMMANDER cards exactly, and lists the viewer's own LIBRARY and HAND in full.
C2_Visibility ==
    \A g \in DOMAIN rooms : get_by_game_room_id(g) # {} =>
        \A viewer \in Users : \A ps \in get_by_game_state(SessionOf(g).id) :
            LET v == PlayerView(ps, viewer) IN
            /\ v \in Projection(g, viewer)
            /\ ps.user_id # viewer => v.library = <<>> /\ v.hand = <<>>
            /\ ps.user_id = viewer =>
                  /\ ViewIds(v.library) = CardsOf(ps.id, LIBRARY)
                  /\ ViewIds(v.hand) = CardsOf(ps.id, HAND)
            /\ ViewIds(v.battlefield) = CardsOf(ps.id, BATTLEFIELD)
            /\ ViewIds(v.graveyard) = CardsOf(ps.id, GRAVEYARD)
            /\ ViewIds(v.exile) = CardsOf(ps.id, EXILE)
            /\ ViewIds(v.commander) = CardsOf(ps.id, COMMANDER)

\* C2 witness: user 1 has read the state of a session in which another player
\* holds cards in LIBRARY, in HAND and in COMMANDER.
C2_Witness ==
    /\ response = Resp("get_game_state", 200, "ok")
    /\ \E g \in DOMAIN rooms : get_by_game_room_id(g) # {} /\
          \E ps \in get_by_game_state(SessionOf(g).id) :
              /\ ps.user_id # 1
              /\ get_player(g, 1) # {}
              /\ CardsOf(ps.id, LIBRARY) # {}
              /\ CardsOf(ps.id, HAND) # {}
              /\ CardsOf(ps.id, COMMANDER) # {}

\* The card belongs to the player state of another participant of the room's session.
OwnedByOther(g, u, cid) ==
    /\ rooms[g].status = IN_PROGRESS
    /\ get_by_game_room_id(g) # {}
    /\ get_by_game_state_and_user(SessionOf(g).id, u) # {}
    /\ get_card_by_id(cid) # {}
    /\ \E ps \in get_by_game_state(SessionOf(g).id) :
          ps.user_id # u /\ CardOf(cid).player_game_state_id = ps.id

NotYours(op) == Resp(op, 403, "This card is not yours")

\* The step answered the operation with "This card is not yours" and changed no card.
Refused(op) == response' = NotYours(op) /\ cards' = cards

\* A request of each kind by a participant on a card owned by another participant.
PlayOfOther == \E g \in DOMAIN rooms, u \in Users, cid \in Ids(cards) :
    OwnedByOther(g, u, cid) /\ \E z \in CardZone : PlayCard(g, u, cid, z)
MoveOfOther == \E g \in DOMAIN rooms, u \in Users, cid \in Ids(cards) :
    OwnedByOther(g, u, cid)
        /\ \E z \in CardZone, pos \in 0..MaxPos : MoveCard(g, u, cid, z, pos)
TapOfOther == \E g \in DOMAIN rooms, u \in Users, cid \in Ids(cards) :
    OwnedByOther(g, u, cid) /\ TapCard(g, u, cid)
RepositionOfOther == \E g \in DOMAIN rooms, u \in Users, cid \in Ids(cards) :
    OwnedByOther(g, u, cid)
        /\ \E x \in 1..MaxCoord, y \in 1..MaxCoord : UpdateBattlefieldPosition(g, u, cid, x, y)

\* C3: in an IN_PROGRESS room a play, move, tap or reposition by a participant on
\* a card owned by another participant is answered Forbidden and changes no card,
\* whatever zone the card is in: a step that answers one of these operations and
\* is not such a refusal is no request on another participant's card.
C3_Ownership ==
    [][/\ response'.op = "play" /\ ~Refused("play") => ~PlayOfOther
       /\ response'.op = "move" /\ ~Refused("move") => ~MoveOfOther
       /\ response'.op = "tap" /\ ~Refused("tap") => ~TapOfOther
       /\ response'.op = "reposition" /\ ~Refused("reposition") => ~RepositionOfOther]_vars

\* C3 witness: a reposition was refused as "not yours" while a card lies on the
\* battlefield that its owner has tapped or placed there.
C3_Witness ==
    /\ response = NotYours("reposition")
    /\ \E c \in cards : c.zone = BATTLEFIELD
    /\ \A g \in DOMAIN rooms : Cardinality(get_by_game_state(SessionOf(g).id)) >= 2

\* The users holding an ACCEPTED membership of the room.
AcceptedMembers(g) == {p.user_id : p \in get_accepted_players(g)}

\* C5: after a start on a room that already had a session, every PlayerGameState
\* and CardInstance of the room belongs to the new session; none of the first
\* session remains.
C5_RestartDiscards ==
    \A g \in DOMAIN rooms :
        response = Resp("start", 200, "ok") =>
            \A gs \in get_by_game_room_id(g) :
                /\ \A ps \in playerStates : ps.room = g => ps.gen = gs.gen
                /\ \A c \in cards : c.room = g => c.gen = gs.gen

\* C8: a stop by the host of an IN_PROGRESS room leaves the room WAITING and
\* without its GameSession, PlayerGameStates and CardInstances, and
\* get_game_state then answers every accepted member with NotFound.
C8_StopTearsDown ==
    [][\A g \in DOMAIN rooms, u \in Users :
          StopGame(g, u) /\ response' = Resp("stop", 200, "ok") =>
            /\ rooms'[g].status = WAITING
            /\ \A gs \in get_by_game_room_id(g) :
                  /\ gs \notin gameStates'
                  /\ \A ps \in playerStates' : ps.game_state_id # gs.id
                  /\ \A c \in cards' : c.game_state_id # gs.id
            /\ \A v \in AcceptedMembers(g) :
                  \A player \in FirstChoices(get_player(g, v)) :
                      GetGameStateResult("get_game_state", g, v, player)'
                          = Resp("get_game_state", 404, "Game state not found")]_vars

\* The deck entries whose card-metadata lookup yields card data.
Resolvable(dcs) == {i \in 1..Len(dcs) : scryfall[dcs[i].card_scryfall_id] = "data"}

RECURSIVE TotalQuantity(_, _)
TotalQuantity(dcs, I) ==
    IF I = {} THEN 0
    ELSE LET i == CHOOSE x \in I : TRUE IN dcs[i].quantity + TotalQuantity(dcs, I \ {i})

InstancesOfPlayer(ps) == {c \in cards : c.player_game_state_id = ps.id}
InZone(ps, zone) == {c \in InstancesOfPlayer(ps) : c.zone = zone}
FromCommanderEntry(ps, dcs) ==
    {c \in InstancesOfPlayer(ps) :
        \E i \in 1..Len(dcs) : dcs[i].id = c.deck_card_id /\ dcs[i].is_commander}

\* C6: after a successful start each player owns exactly Q instances, Q the total
\* quantity of the deck entries whose lookup resolves: an entry of quantity N
\* gives N instances, an entry whose lookup returns nothing or raises gives none,
\* and start by the host does not fail over it.
C6_InstancesPerDeck ==
    /\ response.op = "start" /\ response.code # 200
          => response.detail = "Only the host can start the game"
    /\ \A g \in DOMAIN rooms : \A gs \in get_by_game_room_id(g) :
          \A ps \in get_by_game_state(gs.id) : \A p \in get_player(g, ps.user_id) :
              LET dcs == get_deck_cards(p.deck_id) IN
              /\ Cardinality(InstancesOfPlayer(ps)) = TotalQuantity(dcs, Resolvable(dcs))
              /\ \A i \in 1..Len(dcs) :
                    Cardinality({c \in InstancesOfPlayer(ps) : c.deck_card_id = dcs[i].id})
                        = IF i \in Resolvable(dcs) THEN dcs[i].quantity ELSE 0

\* C6 witness: a session was started for a deck whose "lost" lookup raised and
\* whose commander lookup returned nothing; its player owns the MaxQty copies of
\* the remaining entry.
C6_Witness ==
    /\ response = Resp("start", 200, "ok")
    /\ scryfall["lost"] = "error" /\ scryfall["cmdr"] = "none"
    /\ Len(get_deck_cards(2)) = 3
    /\ \E ps \in playerStates :
          ps.user_id = 2 /\ Cardinality(InstancesOfPlayer(ps)) = MaxQty

\* The zones of a player right after start, the HAND holding handSize cards.
DealtZones(ps, dcs, handSize) ==
    LET Q == Cardinality(InstancesOfPlayer(ps)) IN
    /\ Cardinality(InZone(ps, HAND)) = handSize
    /\ {c.position : c \in InZone(ps, HAND)} = 0..(handSize - 1)
    /\ InZone(ps, COMMANDER) = FromCommanderEntry(ps, dcs)
    /\ Cardinality(InZone(ps, LIBRARY))
          = Q - Cardinality(InZone(ps, HAND)) - Cardinality(InZone(ps, COMMANDER))
    /\ FromCommanderEntry(ps, dcs) \cap (InZone(ps, LIBRARY) \cup InZone(ps, HAND)) = {}

\* C7 as stated: immediately after start a player with Q dealt instances has
\* min(7, Q) cards in HAND at positions 0..|HAND|-1, the commander instances in
\* COMMANDER and the rest in LIBRARY.
C7_HandOfQ ==
    response = Resp("start", 200, "ok") =>
        \A g \in DOMAIN rooms : \A gs \in get_by_game_room_id(g) :
            \A ps \in get_by_game_state(gs.id) : \A p \in get_player(g, ps.user_id) :
                DealtZones(ps, get_deck_cards(p.deck_id),
                           MinOf(OpeningHand, Cardinality(InstancesOfPlayer(ps))))

\* C7 amended: immediately after start a player with Q dealt instances has
\* min(7, Q - |COMMANDER|) cards in HAND at positions 0..|HAND|-1, the commander
\* instances in COMMANDER and the rest in LIBRARY.
C7_HandOfLibrary ==
    response = Resp("start", 200, "ok") =>
        \A g \in DOMAIN rooms : \A gs \in get_by_game_room_id(g) :
            \A ps \in get_by_game_state(gs.id) : \A p \in get_player(g, ps.user_id) :
                DealtZones(ps, get_deck_cards(p.deck_id),
                           MinOf(OpeningHand, Cardinality(InstancesOfPlayer(ps))
                                                - Cardinality(InZone(ps, COMMANDER))))

\* C7 witness: a start dealt one player a commander, seven cards in HAND and a
\* card left in LIBRARY, and the other player a HAND holding the whole deck.
C7_Witness ==
    /\ response = Resp("start", 200, "ok")
    /\ \E ps \in playerStates :
          /\ Cardinality(InZone(ps, HAND)) = OpeningHand
          /\ InZone(ps, LIBRARY) # {}
          /\ InZone(ps, COMMANDER) # {}
    /\ \E ps \in playerStates :
          InstancesOfPlayer(ps) # {} /\ InZone(ps, HAND) = InstancesOfPlayer(ps)

\* The sessions (by generation) that PlayerGameStates or CardInstances of the room belong to.
SessionsWithRows(g) ==
    {ps.gen : ps \in {x \in playerStates : x.room = g}}
        \cup {c.gen : c \in {x \in cards : x.room = g}}

\* C4: a room has at most one GameSession at any time, two start calls on the
\* room whose steps interleave do not both succeed, and once no start is running
\* the room's PlayerGameStates and CardInstances belong to one session only.
C4_OneSessionPerRoom ==
    \A g \in DOMAIN rooms :
        /\ Cardinality(get_by_game_room_id(g)) <= 1
        /\ Cardinality({t \in tasks : t.g = g /\ t.overlapped /\ t.state = "done"}) <= 1
        /\ RunningTasks = {} => Cardinality(SessionsWithRows(g)) <= 1

\* C9: while a start of the room is suspended at one of its awaits, no
\* get_game_state and no zone operation on the room is answered with the session.
C9_StartIsOneUnit ==
    [][\A g \in DOMAIN rooms :
          (\E t \in RunningTasks : t.g = g)
              /\ response' # response
              /\ response'.op \in {"get_game_state", "tap"}
          => response'.code # 200]_vars

\* The memberships with status ACCEPTED.
AcceptedRows == {p \in players : p.status = ACCEPTED}

\* C11: a join succeeds only on a WAITING room whose accepted count is below
\* max_players; it then inserts exactly one membership, PENDING and not host, for
\* the caller, whether the room is public or private; a refused join inserts
\* nothing and no join makes a membership ACCEPTED.
C11_JoinInsertsPending ==
    [][\A g \in DOMAIN rooms, u \in Users :
          response'.op = "join" /\ JoinGame(g, u) =>
            /\ AcceptedRows' = AcceptedRows
            /\ response'.code # 200 => players' = players
            /\ response'.code = 200 =>
                  /\ rooms[g].status = WAITING
                  /\ count_accepted(g) < rooms[g].max_players
                  /\ players \subseteq players'
                  /\ \E p \in players' \ players :
                        /\ players' = players \cup {p}
                        /\ p.game_room_id = g /\ p.user_id = u
                        /\ p.status = PENDING /\ ~p.is_host]_vars

\* C11 witness: a join was refused with "Game has already started" on a public
\* room that is IN_PROGRESS with a free seat and holds a PENDING membership from
\* an earlier join.
C11_Witness ==
    /\ response = Resp("join", 400, "Game has already started")
    /\ rooms[1].is_public /\ rooms[1].status = IN_PROGRESS
    /\ count_accepted(1) < rooms[1].max_players
    /\ \E p \in players : p.status = PENDING /\ ~p.is_host

\* The answer an accept or reject owes to a caller who is not the host (403), to
\* an unknown player id (404) and to a player who is not PENDING (400).
DecisionRefusal(g, pid, u) ==
    /\ ~_is_host(g, u) => response'.code = 403
    /\ _is_host(g, u) /\ get_player_by_id(pid, g) = {} => response'.code = 404
    /\ _is_host(g, u) /\ (\E p \in get_player_by_id(pid, g) : p.status # PENDING)
          => response'.code = 400

\* The one change a successful accept or reject makes: the PENDING row pid of
\* room g takes the status st and every other row stays as it is.
DecisionEffect(g, pid, u, st) ==
    /\ _is_host(g, u)
    /\ \E p \in get_player_by_id(pid, g) :
          /\ p.status = PENDING
          /\ players' = (players \ {p}) \cup {[p EXCEPT !.status = st]}

\* C12: the status of a membership changes only by a successful accept
\* (PENDING to ACCEPTED) or reject (PENDING to REJECTED) of the host; an accept or
\* reject by a non-host is 403, of an unknown player id 404, of a player who is
\* not PENDING 400, and a refused one changes no membership; a membership that
\* is ACCEPTED or REJECTED never changes its status.
C12_StatusByHostDecision ==
    [][/\ \A p \in players, q \in players' :
             q.id = p.id /\ q.status # p.status =>
                /\ p.status = PENDING
                /\ response'.code = 200
                /\ \/ response'.op = "accept" /\ q.status = ACCEPTED
                   \/ response'.op = "reject" /\ q.status = REJECTED
       /\ \A g \in DOMAIN rooms, u \in Users, pid \in 1..MaxLifeRows :
             /\ response'.op = "accept" /\ AcceptPlayer(g, pid, u) =>
                   /\ DecisionRefusal(g, pid, u)
                   /\ response'.code # 200 => players' = players
                   /\ response'.code = 200 => DecisionEffect(g, pid, u, ACCEPTED)
             /\ response'.op = "reject" /\ RejectPlayer(g, pid, u) =>
                   /\ DecisionRefusal(g, pid, u)
                   /\ response'.code # 200 => players' = players
                   /\ response'.code = 200 => DecisionEffect(g, pid, u, REJECTED)]_vars

\* C12 witness: the host's accept of a REJECTED player was refused with "Player
\* is not pending" while another member of the room is ACCEPTED.
C12_Witness ==
    /\ response = Resp("accept", 400, "Player is not pending")
    /\ \E p \in players : p.status = REJECTED
    /\ \E p \in players : p.status = ACCEPTED /\ ~p.is_host

\* The room table and the session tables are as they were.
RoomAndSessionUnchanged == UNCHANGED <<rooms, gameStates, playerStates, cards>>

\* C13: a start by a non-host, with fewer than two ACCEPTED players or with an
\* ACCEPTED player without a deck, and a stop by a non-host or on a room that is
\* not IN_PROGRESS, fail; a failed start or stop leaves the room status and the
\* existing session as they were; a successful start leaves the room IN_PROGRESS
\* with a session present.
C13_FailedStartStopKeepState ==
    [][\A g \in DOMAIN rooms, u \in Users :
          /\ response'.op = "start" /\ response' = StartResult(g, u) =>
                /\ (\/ ~_is_host(g, u)
                    \/ Cardinality(get_accepted_players(g)) < MinPlayers
                    \/ \E p \in get_accepted_players(g) : p.deck_id = Null)
                      => response'.code # 200
                /\ response'.code # 200 => RoomAndSessionUnchanged
                /\ response'.code = 200 =>
                      /\ rooms'[g].status = IN_PROGRESS
                      /\ \E gs \in gameStates' : gs.game_room_id = g
          /\ response'.op = "stop" /\ response' = StopResult(g, u) =>
                /\ (~_is_host(g, u) \/ rooms[g].status # IN_PROGRESS)
                      => response'.code # 200
                /\ response'.code # 200 => RoomAndSessionUnchanged]_vars

\* C13 witness: a start was refused for a missing deck on a room that is
\* IN_PROGRESS and keeps its session.
C13_Witness ==
    /\ response = Resp("start", 400, "All players must select their decks before starting")
    /\ rooms[1].status = IN_PROGRESS
    /\ get_by_game_room_id(1) # {}

\* The memberships of room g flagged is_host.
HostRows(g) == {p \in players : p.game_room_id = g /\ p.is_host}

\* The memberships of room g of users other than u.
RowsOfOthers(g, u) == {p \in players : ~(p.game_room_id = g /\ p.user_id = u)}

\* C14: a leave by the host is refused and changes no membership, so every room
\* keeps exactly one is_host membership and that one is ACCEPTED; a leave by a
\* non-host removes the membership of that user and no other.
C14_HostStaysLeaverGoes ==
    [][/\ \A g \in DOMAIN rooms :
             /\ Cardinality(HostRows(g)') = 1
             /\ \A p \in HostRows(g)' : p.status = ACCEPTED /\ p.user_id = rooms[g].host_id
       /\ \A g \in DOMAIN rooms, u \in Users :
             response'.op = "leave" /\ LeaveGame(g, u) =>
                /\ _is_host(g, u) => response'.code # 204 /\ players' = players
                /\ ~_is_host(g, u) /\ response'.code = 204 =>
                      /\ get_player(g, u)' = {}
                      /\ RowsOfOthers(g, u)' = RowsOfOthers(g, u)]_vars

\* The caller's cards in a zone, for a caller whose draw passes the session checks.
ZoneOfCaller(g, u, zone) ==
    UNION {get_player_cards_in_zone(cards, ps.id, zone) :
              ps \in {x \in PlayerStateChoices(g, u) : SessionGuard("draw", g, x).code = 200}}

\* The cards of lowest position among S.
LowestPosition(S) == {c \in S : \A o \in S : c.position <= o.position}

\* C15: a draw moves the caller's LIBRARY card of lowest position to HAND and
\* gives it the position that equals the number of cards already in the
\* caller's HAND.
C15_DrawAppends ==
    [][\A g \in DOMAIN rooms, u \in Users :
          response'.op = "draw" /\ DrawCard(g, u) /\ ZoneOfCaller(g, u, LIBRARY) # {} =>
            \E c \in LowestPosition(ZoneOfCaller(g, u, LIBRARY)) :
                cards' = (cards \ {c}) \cup
                    {[c EXCEPT !.zone = HAND,
                               !.position = Cardinality(ZoneOfCaller(g, u, HAND))]}]_vars

\* The cards of cs that are not in after as they are in cs.
Touched(cs, after) == {c \in cs : c \notin after}

\* draw_cards(ps, n) applied to the cards of the state: it moves min(n, |LIBRARY|)
\* cards of the player's LIBRARY to HAND, none of them of higher position than a
\* card it leaves in the LIBRARY, and changes no other card.
DrawsLowest(ps, n, library) ==
    LET lib == get_player_cards_in_zone(cards, ps.id, LIBRARY)
        after == draw_cards(cards, ps.id, n, library)
        moved == Touched(cards, after)
    IN /\ Cardinality(after) = Cardinality(cards)
       /\ moved \subseteq lib
       /\ Cardinality(moved) = MinOf(n, Cardinality(lib))
       /\ \A c \in moved : \A o \in lib \ moved : c.position <= o.position
       /\ \A c \in moved : \E d \in after : d.id = c.id /\ d.zone = HAND
       /\ lib = {} => after = cards

\* C16: draw(n) moves exactly min(n, |LIBRARY|) cards, those of lowest position,
\* from the LIBRARY to HAND; a draw on an empty LIBRARY is answered without an
\* error and leaves every card where it is.
C16_DrawCount ==
    /\ [](\A ps \in playerStates, n \in 0..OpeningHand :
            \A library \in PositionOrders(get_player_cards_in_zone(cards, ps.id, LIBRARY)) :
                DrawsLowest(ps, n, library))
    /\ [][\A g \in DOMAIN rooms, u \in Users :
            response'.op = "draw" /\ DrawCard(g, u)
                /\ (\E ps \in PlayerStateChoices(g, u) : SessionGuard("draw", g, ps).code = 200)
                /\ ZoneOfCaller(g, u, LIBRARY) = {}
            => response'.code = 200 /\ cards' = cards]_vars

\* C16 witness: the one zone operation so far was a draw answered 200 that
\* moved nothing: every library is as the deal left it, one of them not empty
\* and one of them empty.
C16_Witness ==
    /\ response = Resp("draw", 200, "ok") /\ nops = 1
    /\ \E ps \in playerStates : get_player_cards_in_zone(cards, ps.id, LIBRARY) = {}
    /\ \E ps \in playerStates :
          /\ Cardinality(get_player_cards_in_zone(cards, ps.id, LIBRARY)) = 2
          /\ Cardinality(get_player_cards_in_zone(cards, ps.id, HAND)) = OpeningHand

\* The cards after card c went to the zone at the position that equals the
\* number of cards its owner holds in that zone.
PlayedTo(c, zone) ==
    (cards \ {c}) \cup
        {[c EXCEPT !.zone = zone,
                   !.position = Cardinality(get_player_cards_in_zone(
                                                cards, c.player_game_state_id, zone))]}

\* C17: a play is accepted only for a card in the caller's HAND, a refused play
\* leaves every card as it is, and an accepted play puts the card into the
\* target zone at the position that equals the number of the caller's cards
\* already in that zone.
C17_PlayFromHandAppends ==
    [][response'.op = "play" =>
          /\ response'.code # 200 => cards' = cards
          /\ response'.code = 200 =>
                \E c \in {x \in cards : x.zone = HAND}, zone \in CardZone :
                    /\ cards' = PlayedTo(c, zone)
                    /\ \E g \in DOMAIN rooms, u \in Users :
                          /\ c.player_game_state_id \in Ids(PlayerStateChoices(g, u))
                          /\ PlayCard(g, u, c.id, zone)]_vars

\* C17 witness: after two plays a player holds two cards on the BATTLEFIELD, at
\* the positions 0 and 1, and a card remains in the HAND.
C17_Witness ==
    /\ response = Resp("play", 200, "ok") /\ nops = 2
    /\ \E ps \in playerStates :
          /\ {c.position : c \in get_player_cards_in_zone(cards, ps.id, BATTLEFIELD)} = {0, 1}
          /\ get_player_cards_in_zone(cards, ps.id, HAND) # {}

\* C18: no two cards of one player state that are in the same zone, other than
\* COMMANDER, have the same position.
C18_UniquePositions ==
    \A c \in cards, d \in cards :
        /\ c.id # d.id
        /\ c.player_game_state_id = d.player_game_state_id
        /\ c.zone = d.zone /\ c.zone # COMMANDER
        => c.position # d.position

\* The player states of session gs flagged is_active.
ActiveStates(gs) == {ps \in get_by_game_state(gs.id) : ps.is_active}

\* C19: in every session exactly one player state is active, and it belongs to
\* the user the session records as active player and as starting player.
C19_OneActivePlayer ==
    \A gs \in gameStates :
        /\ Cardinality(ActiveStates(gs)) = 1
        /\ \A ps \in ActiveStates(gs) :
              ps.user_id = gs.active_player_id /\ ps.user_id = gs.starting_player_id

\* The users with an ACCEPTED membership in room g.
AcceptedUsers(g) == {p.user_id : p \in get_accepted_players(g)}

\* The assignments of 0..N-1 to the N accepted users of room g, each value once.
OrderAssignments(g) ==
    {f \in [AcceptedUsers(g) -> 0..(Cardinality(AcceptedUsers(g)) - 1)] :
        \A a \in AcceptedUsers(g), b \in AcceptedUsers(g) : f[a] = f[b] => a = b}

\* The player states created by the start that made the newest session.
NewestPlayerStates == {ps \in playerStates : ps.gen = seq.gen}

\* The player_order start_game gives the accepted users of room g: for every
\* order the accepted rows can be listed in and every outcome of
\* random.shuffle(player_order), the value stored for each user.
StartOrderOutcomes(g) ==
    {[u \in AcceptedUsers(g) |->
        PlayerOrderOf((CHOOSE i \in 1..Len(accepted) : accepted[i].user_id = u) - 1, shuffled)] :
            <<accepted, shuffled>> \in
                RowOrders(get_accepted_players(g))
                    \X Permutations(0..(Cardinality(get_accepted_players(g)) - 1))}

\* C20: a start gives the player states it creates the values 0..N-1 as
\* player_order, each once, and every such assignment to the accepted users is
\* an outcome the start can produce, whatever the order in which they joined.
C20_PlayerOrderIsRandom ==
    /\ [][\A g \in DOMAIN rooms :
            response'.op = "start" /\ response'.code = 200 =>
              /\ Cardinality(NewestPlayerStates') = Cardinality(get_accepted_players(g))
              /\ {ps.player_order : ps \in NewestPlayerStates'}
                    = 0..(Cardinality(NewestPlayerStates') - 1)
              /\ [u \in AcceptedUsers(g) |->
                    (CHOOSE ps \in NewestPlayerStates' : ps.user_id = u).player_order]
                    \in StartOrderOutcomes(g)]_vars
    /\ [](\A g \in DOMAIN rooms, u \in Users :
            StartResult(g, u).code = 200 => OrderAssignments(g) \subseteq StartOrderOutcomes(g))

\* The operations on the cards of a running session.
ZoneOps == {"draw", "play", "move", "tap", "untap_all", "reposition"}

\* Which player state owns which card.
Ownership == {<<c.id, c.player_game_state_id>> : c \in cards}

\* C21: draw, play, move, tap, untap_all and reposition create no card, delete
\* no card and leave every card with the player state that owns it, and every
\* card is in one of the six zones.
C21_CardsStayWithOwner ==
    [][response'.op \in ZoneOps =>
          /\ Ownership' = Ownership
          /\ Cardinality(cards') = Cardinality(Ownership)
          /\ \A c \in cards' : c.zone \in CardZone]_vars

\* C21 witness: a move was answered 200 and a card of the session lies in the
\* GRAVEYARD.
C21_Witness ==
    /\ response = Resp("move", 200, "ok")
    /\ \E c \in cards : c.zone = GRAVEYARD

\* The player states of user u in the session of room g that are not active.
InactiveStatesOf(g, u) == {ps \in PlayerStateChoices(g, u) : ps # NoRow /\ ~ps.is_active}

\* The card cid belongs to a player state of user u that is not active.
InactiveOwner(g, u, cid) ==
    \E ps \in InactiveStatesOf(g, u) : \E c \in get_card_by_id(cid) : OwnsCard(c, ps)

\* The turn data of the sessions and players are those start_game wrote.
TurnDataAsDealt ==
    /\ \A gs \in gameStates : gs.current_turn = 1 /\ gs.current_phase = UNTAP
    /\ \A ps \in playerStates : ps.life_total = StartLife /\ ps.poison_counters = 0

\* C22: draw, play, move, tap, untap_all and reposition are accepted from a
\* player who is not the active player, and none of them changes the turn, the
\* phase, the active or starting player of the session or the is_active,
\* life_total or poison_counters of a player: turn 1, phase untap, 40 life and
\* no poison stay as start wrote them.
C22_TurnDataInformational ==
    /\ []TurnDataAsDealt
    /\ [][response'.op \in ZoneOps =>
            /\ gameStates' = gameStates /\ playerStates' = playerStates
            /\ \A g \in DOMAIN rooms, u \in Users :
                  rooms[g].status = IN_PROGRESS /\ InactiveStatesOf(g, u) # {} =>
                    /\ response'.op = "draw" /\ DrawCard(g, u) => response'.code = 200
                    /\ response'.op = "untap_all" /\ UntapAll(g, u) => response'.code = 200
                    /\ \A c \in cards : InactiveOwner(g, u, c.id) =>
                          /\ response'.op = "tap" /\ TapCard(g, u, c.id)
                                => response'.code = 200
                          /\ response'.op = "move"
                                /\ (\E z \in CardZone, pos \in 0..MaxPos :
                                       MoveCard(g, u, c.id, z, pos))
                                => response'.code = 200
                          /\ response'.op = "play" /\ c.zone = HAND
                                /\ (\E z \in CardZone : PlayCard(g, u, c.id, z))
                                => response'.code = 200
                          /\ response'.op = "reposition" /\ c.zone = BATTLEFIELD
                                /\ (\E x \in 1..MaxCoord, y \in 1..MaxCoord :
                                       UpdateBattlefieldPosition(g, u, c.id, x, y))
                                => response'.code = 200]_vars

\* C22 witness: a tap was answered 200 and the tapped card belongs to a player
\* who is not the active player.
C22_Witness ==
    /\ response = Resp("tap", 200, "ok") /\ nops = 1
    /\ \E c \in cards : \E ps \in playerStates :
          c.is_tapped /\ c.player_game_state_id = ps.id /\ ~ps.is_active

\* The step writes the cards for request t.
WriteStep(t) ==
    \/ t \in tasks' \ tasks /\ t.wrote
    \/ t \in tasks \ tasks' /\ ~t.wrote

\* C23: the checks and the write of a zone operation are one step for the other
\* requests on the room: every draw that writes while the caller's LIBRARY holds
\* a card moves one more card from LIBRARY to HAND, so two overlapping draws on a
\* library of two move two distinct cards, and a play writes only while the card
\* is in HAND, also when a move of the same card overlaps it.
C23_GuardAndWriteAtomic ==
    [][\A t \in tasks \cup tasks' : WriteStep(t) =>
          /\ t.op = "draw" /\ get_player_cards_in_zone(cards, t.psid, LIBRARY) # {} =>
                /\ Cardinality(get_player_cards_in_zone(cards, t.psid, HAND)')
                      = Cardinality(get_player_cards_in_zone(cards, t.psid, HAND)) + 1
                /\ Cardinality(get_player_cards_in_zone(cards, t.psid, LIBRARY)')
                      = Cardinality(get_player_cards_in_zone(cards, t.psid, LIBRARY)) - 1
          /\ t.op = "play" => \E c \in get_card_by_id(t.cid) : c.zone = HAND]_vars

\* C23 witness: two draws of one player are suspended at their await together,
\* and the two cards the deal left in the player's LIBRARY are both in the HAND.
C23_Witness ==
    \E t1 \in tasks, t2 \in tasks :
        /\ t1 # t2 /\ t1.op = "draw" /\ t2.op = "draw" /\ t1.psid = t2.psid
        /\ get_player_cards_in_zone(cards, t1.psid, LIBRARY) = {}
        /\ Cardinality(get_player_cards_in_zone(cards, t1.psid, HAND)) = OpeningHand + 2

\* The deck exists and belongs to the user.
OwnDeck(u, d) == d \in DOMAIN decks /\ decks[d].owner_id = u

\* The memberships whose deck_id differs between the two states of a step.
DeckChanged == {p \in players : \A q \in players' : q.id = p.id => q.deck_id # p.deck_id}

\* C24: select_deck changes a selected deck only for a caller with an ACCEPTED
\* membership in the room and a deck that exists and is the caller's, and then
\* only on a membership of the caller; for a caller without an ACCEPTED
\* membership, an unknown deck or a deck of another user it fails, and a failed
\* select_deck changes no membership.
C24_SelectDeckGuards ==
    [][\A g \in DOMAIN rooms, u \in Users, d \in DeckIds :
          response'.op = "select_deck" /\ SelectDeck(g, u, d) =>
            /\ response'.code # 200 => players' = players
            /\ (\A p \in get_player(g, u) : p.status # ACCEPTED) => response'.code # 200
            /\ ~OwnDeck(u, d) => response'.code # 200
            /\ response'.code = 200 =>
                  /\ Ids(players') = Ids(players)
                  /\ \A p \in DeckChanged :
                        p.game_room_id = g /\ p.user_id = u /\ p.status = ACCEPTED
                  /\ \E p \in get_player(g, u) : \E q \in players' :
                        /\ p.status = ACCEPTED /\ q = [p EXCEPT !.deck_id = d]
                        /\ players' = (players \ {p}) \cup {q}]_vars

\* C24 witness: a select_deck was refused for the deck while the room holds a
\* PENDING member and an ACCEPTED member who has selected a deck.
C24_Witness ==
    /\ response = Resp("select_deck", 404, "Deck not found or does not belong to you")
    /\ \E p \in players : p.status = PENDING
    /\ \E p \in players : p.status = ACCEPTED /\ ~p.is_host /\ p.deck_id # Null

\* C25: a select_deck on a room that is IN_PROGRESS changes neither a selected
\* deck nor a player state or card of the running session.
C25_SelectDeckInProgressNoOp ==
    [][\A g \in DOMAIN rooms :
          response'.op = "select_deck" /\ rooms[g].status = IN_PROGRESS =>
            /\ players' = players
            /\ UNCHANGED <<gameStates, playerStates, cards>>]_vars

\* The memberships of room g, and those that are its host's: ACCEPTED, is_host.
MembersOf(g) == {p \in players : p.game_room_id = g}
HostMembersOf(g) ==
    {p \in MembersOf(g) : p.user_id = rooms[g].host_id /\ p.is_host /\ p.status = ACCEPTED}

\* No list of rooms served to a request shows a room without an accepted member.
ListedRoomsHaveHost ==
    response.op = "list" => \A item \in response.detail : item.current_players >= 1

\* When create answers 201 its room has one membership, the host's.
CreatedRoomHasOnlyHost ==
    \A t \in tasks :
        t.op = "create" /\ t.g # 0 /\ t \notin tasks' /\ response'.code = 201 =>
            /\ Cardinality(MembersOf(t.g)') = 1
            /\ MembersOf(t.g)' = HostMembersOf(t.g)'

\* C26: create stores the room (WAITING) and the host's membership (ACCEPTED,
\* is_host) as one atomic step: no request observes a room without its host
\* membership, and right after create the room has exactly one membership, the
\* host's.
C26_CreateIsAtomic == []ListedRoomsHaveHost /\ [][CreatedRoomHasOnlyHost]_vars

SessionsOf(g) == Ids(get_by_game_room_id(g))
RowsOfRoom(g) ==
    [players |-> {p \in players : p.game_room_id = g},
     gameStates |-> get_by_game_room_id(g),
     playerStates |-> {ps \in playerStates : ps.game_state_id \in SessionsOf(g)},
     cards |-> {c \in cards : c.game_state_id \in SessionsOf(g)}]

\* C28: delete by the host removes the room with all its memberships and, when
\* a session exists, its game state, player states and cards, and the room is
\* NotFound afterwards; delete by another user is Forbidden and removes nothing.
C28_DeleteRemovesRoom ==
    [][\A g \in DOMAIN rooms, u \in Users :
          response'.op = "delete" /\ DeleteGame(g, u) =>
            IF _is_host(g, u)
              THEN /\ g \notin DOMAIN rooms'
                   /\ players' = players \ RowsOfRoom(g).players
                   /\ gameStates' = gameStates \ RowsOfRoom(g).gameStates
                   /\ playerStates' = playerStates \ RowsOfRoom(g).playerStates
                   /\ cards' = cards \ RowsOfRoom(g).cards
                   /\ \A v \in Users : DeleteResult(g, v)'.code = 404
              ELSE /\ response'.code = 403
                   /\ UNCHANGED <<rooms, players, gameStates, playerStates, cards>>]_vars

EmittingOps == {"join", "accept", "reject", "leave", "start", "stop", "select_deck"}

\* What the handler of t has stored, read after its commit.
Stored(t) ==
    CASE t.op = "join" ->
           \E p \in players : p.game_room_id = t.g /\ p.user_id = t.u /\ p.status = PENDING
      [] t.op = "accept" -> \E p \in players : p.id = t.arg /\ p.status = ACCEPTED
      [] t.op = "reject" -> \E p \in players : p.id = t.arg /\ p.status = REJECTED
      [] t.op = "leave" -> t.arg \notin Ids(players)
      [] t.op = "start" -> rooms[t.g].status = IN_PROGRESS
      [] t.op = "stop" -> rooms[t.g].status = WAITING
      [] t.op = "select_deck" ->
           \E p \in players : p.game_room_id = t.g /\ p.user_id = t.u /\ p.deck_id = t.arg

C30_TapToggles ==
    [][\A g \in DOMAIN rooms, u \in Users, cid \in Ids(cards) :
          response'.op = "tap" /\ nops' = nops + 1 /\ TapCard(g, u, cid) =>
            /\ \E c \in get_card_by_id(cid) :
                  /\ \E ps \in PlayerStateChoices(g, u) : OwnsCard(c, ps)
                  /\ cards' = (cards \ {c}) \cup {[c EXCEPT !.is_tapped = ~c.is_tapped]}
            /\ UNCHANGED <<rooms, players, gameStates, playerStates>>
            /\ toggle_tapped(cid)' = cards]_vars

\* C30 witness: two taps passed their checks and every card is untapped, so
\* both were taps of one card: the second has untapped what the first tapped.
C30_Witness ==
    /\ nops = 2
    /\ response = Resp("tap", 200, "ok")
    /\ cards # {}
    /\ \A c \in cards : ~c.is_tapped

\* C31: an untap_all that passes its checks sets is_tapped to FALSE on every
\* card of the caller in BATTLEFIELD and changes nothing else: every other
\* field of those cards, the caller's cards in other zones, the cards of other
\* players, the game state (turn, phase) and the player states stay.
C31_UntapAllFrame ==
    [][\A g \in DOMAIN rooms, u \in Users :
          response'.op = "untap_all" /\ nops' = nops + 1 /\ UntapAll(g, u) =>
            /\ \E ps \in PlayerStateChoices(g, u) :
                  cards' = {IF c.player_game_state_id = ps.id /\ c.zone = BATTLEFIELD
                              THEN [c EXCEPT !.is_tapped = FALSE] ELSE c : c \in cards}
            /\ UNCHANGED <<rooms, players, gameStates, playerStates>>]_vars

\* C31 witness: the third operation was an untap_all that passed its checks, a
\* BATTLEFIELD card is untapped and a card outside the BATTLEFIELD is still tapped.
C31_Witness ==
    /\ nops = MaxFieldOps
    /\ response = Resp("untap_all", 200, "ok")
    /\ \E c \in cards : c.zone = BATTLEFIELD /\ ~c.is_tapped
    /\ \E c \in cards : c.zone # BATTLEFIELD /\ c.is_tapped

\* C32: a reposition of a card the caller owns answers 200 only for a card in
\* BATTLEFIELD, and then sets battlefield_x and battlefield_y of that card to
\* the given values and changes nothing else; for a card in another zone it
\* answers 400 and changes no card.
C32_RepositionOnBattlefieldOnly ==
    [][\A g \in DOMAIN rooms, u \in Users, cid \in Ids(cards) :
       \A x \in 1..MaxCoord, y \in 1..(MaxCoord + 1) :
          /\ response'.op = "reposition"
          /\ UpdateBattlefieldPosition(g, u, cid, x, y)
          /\ \E ps \in PlayerStateChoices(g, u) : CardGuard("reposition", g, ps, cid).code = 200
          => LET c == CardOf(cid) IN
             IF c.zone = BATTLEFIELD
               THEN /\ response'.code = 200
                    /\ cards' = (cards \ {c}) \cup
                                  {[c EXCEPT !.battlefield_x = x, !.battlefield_y = y]}
                    /\ UNCHANGED <<rooms, players, gameStates, playerStates>>
               ELSE /\ response' = Resp("reposition", 400, "Card is not on the battlefield")
                    /\ UNCHANGED <<rooms, players, gameStates, playerStates, cards>>]_vars

\* C32 witness: a reposition has placed a BATTLEFIELD card.
C32_Witness ==
    /\ response = Resp("reposition", 200, "ok")
    /\ \E c \in cards : c.zone = BATTLEFIELD /\ c.battlefield_x = 1 /\ c.battlefield_y = 2

\* The first check of the stated order that fails for a request on card cid
\* in room g by a caller whose player state in the room's session is ps (NoRow
\* when there is none), as a status code and a detail, or 200 when none fails.
FirstFailure(g, ps, cid, withCard) ==
    IF rooms[g].status # IN_PROGRESS THEN <<400, "Game is not in progress">>
    ELSE IF ~\E gs \in gameStates : gs.game_room_id = g THEN <<404, "Game state not found">>
    ELSE IF ps = NoRow THEN <<403, "You are not in this game">>
    ELSE IF ~withCard THEN <<200, "ok">>
    ELSE IF ~\E c \in cards : c.id = cid THEN <<404, "Card not found">>
    ELSE IF ~\E c \in cards : c.id = cid /\ c.player_game_state_id = ps.id
        THEN <<403, "This card is not yours">>
    ELSE <<200, "ok">>

\* C33: every zone operation reports the first check that fails in the order
\* room not IN_PROGRESS (400), no session of the room (404), caller without a
\* player state in the session (403), unknown card id (404), card of another
\* player state than the caller's (403), and only then its zone precondition
\* (400); so a non-participant gets 403 for an unknown card id and a
\* participant gets 403 for a card of the other room's session.
C33_ChecksInOrder ==
    [][\A g \in DOMAIN rooms, u \in Users, cid \in CardIds :
          /\ \/ response'.op = "play" /\ PlayCard(g, u, cid, BATTLEFIELD)
             \/ response'.op = "move" /\ MoveCard(g, u, cid, GRAVEYARD, 0)
             \/ response'.op = "tap" /\ TapCard(g, u, cid)
             \/ response'.op = "reposition" /\ UpdateBattlefieldPosition(g, u, cid, 1, 1)
             => \E ps \in PlayerStateChoices(g, u) :
                  LET first == FirstFailure(g, ps, cid, TRUE) IN
                  /\ first[1] # 200
                       => response'.code = first[1] /\ response'.detail = first[2]
                  /\ first[1] = 200 /\ response'.op = "play" /\ CardOf(cid).zone # HAND
                       => response' = Resp("play", 400, "Card is not in hand")
                  /\ first[1] = 200 /\ response'.op = "reposition"
                        /\ CardOf(cid).zone # BATTLEFIELD
                       => response' = Resp("reposition", 400, "Card is not on the battlefield")
          /\ \/ response'.op = "draw" /\ DrawCard(g, u)
             \/ response'.op = "untap_all" /\ UntapAll(g, u)
             => \E ps \in PlayerStateChoices(g, u) :
                  LET early == FirstFailure(g, ps, cid, FALSE) IN
                  early[1] # 200 => response'.code = early[1] /\ response'.detail = early[2]]_vars

\* C33 witness: with both rooms in progress a request on a card was refused
\* because the card is not the caller's.
C33_Witness ==
    /\ \A g \in DOMAIN rooms : rooms[g].status = IN_PROGRESS /\ get_by_game_room_id(g) # {}
    /\ response.code = 403 /\ response.detail = "This card is not yours"
    /\ response.op \in {"play", "move", "tap", "reposition"}

\* C34: a move of a card the caller owns sets exactly the zone and the position
\* of that card to the given ones, from any zone to any zone, and changes
\* nothing else: the card keeps is_tapped, battlefield_x/y, the attack and block
\* flags, the damage and its owner, also when it leaves the BATTLEFIELD, and no
\* other card changes; a play changes the zone and the position of the played
\* card only.
C34_MoveFrame ==
    [][\A g \in DOMAIN rooms, u \in Users, cid \in Ids(cards), z \in CardZone :
          LET c == CardOf(cid) IN
          /\ \A pos \in 0..MaxPos :
                response'.op = "move" /\ nops' = nops + 1 /\ MoveCard(g, u, cid, z, pos)
                => /\ cards' = (cards \ {c}) \cup {[c EXCEPT !.zone = z, !.position = pos]}
                   /\ UNCHANGED <<rooms, players, gameStates, playerStates>>
          /\ response'.op = "play" /\ nops' = nops + 1 /\ PlayCard(g, u, cid, z)
                => /\ \E p \in 0..Cardinality(cards) :
                        cards' = (cards \ {c}) \cup {[c EXCEPT !.zone = z, !.position = p]}
                   /\ UNCHANGED <<rooms, players, gameStates, playerStates>>]_vars

\* C34 witness: a move has taken a tapped, placed card off the BATTLEFIELD and
\* the card is still tapped and placed.
C34_Witness ==
    /\ response = Resp("move", 200, "ok")
    /\ \E c \in cards : /\ c.zone \notin {BATTLEFIELD, HAND}
                        /\ c.is_tapped /\ c.battlefield_x = 1 /\ c.battlefield_y = 2

C36_ParticipantsAreAccepted ==
    \A g \in DOMAIN rooms :
        rooms[g].status = IN_PROGRESS =>
            LET sessions == {gs.id : gs \in {x \in gameStates : x.game_room_id = g}}
                seated == {ps \in playerStates : ps.game_state_id \in sessions}
                accepted == {p \in players : p.game_room_id = g /\ p.status = ACCEPTED}
            IN /\ {ps.user_id : ps \in seated} = {p.user_id : p \in accepted}
               /\ \A a, b \in seated : a.user_id = b.user_id => a = b

\* C37: a draw, play, move, tap, untap_all or reposition request that is
\* answered with an error (400, 403 or 404) has changed no card.
C37_RefusedRequestChangesNoCard ==
    [][response'.op \in ZoneOps /\ response'.code \in {400, 403, 404} => cards' = cards]_vars

\* C38: get_game_state answers 200 only to a user with an ACCEPTED membership
\* of the room; a user without one (no membership, PENDING or REJECTED) gets
\* 403 whether or not the room has a session, and a user with an ACCEPTED
\* membership of a room without a session gets 404.
C38_StateOnlyForAccepted ==
    [][\A g \in DOMAIN rooms, u \in Users :
          response'.op = "get_game_state" /\ GetGameState(g, u) =>
            LET accepted == \E p \in players : /\ p.game_room_id = g /\ p.user_id = u
                                               /\ p.status = ACCEPTED
                session == \E gs \in gameStates : gs.game_room_id = g
            IN /\ response'.code = 200 => accepted
               /\ ~accepted => response' = Resp("get_game_state", 403, "You are not in this game")
               /\ accepted /\ ~session
                    => response' = Resp("get_game_state", 404, "Game state not found")]_vars

====
